---- MODULE Spec2Model ----
(***************************************************************************)
(* A state-machine model of rpi-lgpio's RPi.GPIO compatibility layer       *)
(* (src/RPi/GPIO/__init__.py): the numbering mode and chip handle, the     *)
(* claiming, reading and writing of lines, the edge alerts and the         *)
(* blocking edge wait.  The lgpio library and the kernel's line table are  *)
(* the environment; they are modelled at the calls the module makes.       *)
(*                                                                         *)
(* Python's None is the empty sequence <<>>, a present value v is <<v>>.   *)
(***************************************************************************)
EXTENDS Integers, Sequences, FiniteSets, TLC

\* ------------------------------------------------------------------------
\* Module constants (src/RPi/GPIO/__init__.py:28-71)
\* ------------------------------------------------------------------------
UNKNOWN == -1
BOARD == 10
BCM == 11

PUD_OFF == 20
PUD_DOWN == 21
PUD_UP == 22

\* OUT and IN (IN is a reserved word of TLA+)
DIR_OUT == 0
DIR_IN == 1

RISING == 31
FALLING == 32
BOTH == 33

_LG_INPUT == 256
_LG_OUTPUT == 512
_LG_ALERT == 1024
_LG_GROUP == 2048
_LG_MODES == _LG_INPUT + _LG_OUTPUT + _LG_ALERT + _LG_GROUP
_LG_PULL_UP == 32
_LG_PULL_DOWN == 64
_LG_PULL_NONE == 128
_LG_PULLS == _LG_PULL_UP + _LG_PULL_DOWN + _LG_PULL_NONE

\* lgpio's own edge constants, the values _Alert.edge returns on read-back
LG_RISING_EDGE == 1
LG_FALLING_EDGE == 2
LG_BOTH_EDGES == 3

\* The number of lines a Raspberry Pi's numbering knows (_to_gpio, BCM branch)
NUM_GPIOS == 54

None == <<>>
Some(v) == <<v>>

\* ------------------------------------------------------------------------
\* Bounds of the model
\* ------------------------------------------------------------------------
\* how many callbacks an alert's list may hold before a handler that would
\* append one more is not taken
MaxCallbacks == 2
\* how many orphaned (overwritten, never cancelled) alerts a line may carry
MaxLeaked == 1

\* The kernel lines the model tracks: the lines channels 4 and 7 name in
\* either numbering mode (BCM 4 -> 4, 7 -> 7; BOARD 7 -> 4, no position 4),
\* and line 2, one of the two with a pull-up resistor fitted.
Lines == {2, 4, 7}

\* ------------------------------------------------------------------------
\* Pin numbering
\* ------------------------------------------------------------------------
\* _BOARD_MAP as the dict literal lists it, in order: <<position, line>>
BOARD_MAP_ITEMS ==
  << <<3, 2>>, <<5, 3>>, <<7, 4>>, <<8, 14>>, <<10, 15>>, <<11, 17>>,
     <<12, 18>>, <<13, 27>>, <<15, 22>>, <<16, 23>>, <<18, 24>>, <<19, 10>>,
     <<21, 9>>, <<22, 25>>, <<23, 11>>, <<24, 8>>, <<26, 7>>, <<29, 5>>,
     <<31, 6>>, <<32, 12>>, <<33, 13>>, <<35, 19>>, <<36, 16>>, <<37, 26>>,
     <<38, 20>>, <<40, 21>> >>

\* A dict built from items <<key, value>>: a later item of the same key
\* replaces an earlier one.  DictGet is None for a missing key.
DictKeys(items) == {items[i][1] : i \in 1..Len(items)}
DictGet(items, key) ==
  LET hits == {i \in 1..Len(items) : items[i][1] = key}
  IN IF hits = {} THEN None
     ELSE Some(items[CHOOSE i \in hits : \A j \in hits : j <= i][2])

\* (mutant) the last position given the line of the one before it
BOARD_MAP_Duplicate == [BOARD_MAP_ITEMS EXCEPT ![26] = <<40, 20>>]

_BOARD_MAP == BOARD_MAP_ITEMS

\* _BCM_MAP = {channel: gpio for (gpio, channel) in _BOARD_MAP.items()}
_BCM_MAP == [i \in 1..Len(_BOARD_MAP) |-> <<_BOARD_MAP[i][2], _BOARD_MAP[i][1]>>]

\* Results of a function that may raise: [err |-> "ok", val |-> v] or an error
Ok(v) == [err |-> "ok", val |-> v]
Raise(e) == [err |-> e, val |-> None]

\* (mutant) the mode is not checked: an unset mode is read as BCM
to_gpio_NoModeCheck(m, channel) ==
  IF m = BOARD
    THEN LET hit == DictGet(_BOARD_MAP, channel)
         IN IF hit = None THEN Raise("InvalidChannel") ELSE Ok(hit[1])
  ELSE IF 0 <= channel /\ channel < NUM_GPIOS
    THEN Ok(channel) ELSE Raise("InvalidChannel")

\* _to_gpio(channel) under numbering mode m
_to_gpio(m, channel) ==
  IF m = UNKNOWN THEN Raise("ModeNotSet")
  ELSE IF m = BCM
    THEN IF 0 <= channel /\ channel < NUM_GPIOS
           THEN Ok(channel) ELSE Raise("InvalidChannel")
  ELSE IF m = BOARD
    THEN LET hit == DictGet(_BOARD_MAP, channel)
         IN IF hit = None THEN Raise("InvalidChannel") ELSE Ok(hit[1])
  ELSE Raise("AssertionError")

\* _from_gpio(gpio) under numbering mode m
_from_gpio(m, gpio) ==
  IF m = BCM THEN Ok(gpio)
  ELSE IF m = BOARD
    THEN LET hit == DictGet(_BCM_MAP, gpio)
         IN IF hit = None THEN Raise("KeyError") ELSE Ok(hit[1])
  ELSE Raise("ModeNotSet")

\* _gpio_list(chanlist): the whole tuple is built before any line is used;
\* the first channel that does not translate raises.  chanlist is a sequence
\* (a single integer is the one-element sequence).
RECURSIVE GpioListFrom(_, _, _)
GpioListFrom(m, chanlist, i) ==
  IF i > Len(chanlist) THEN Ok(<<>>)
  ELSE LET g == _to_gpio(m, chanlist[i])
       IN IF g.err # "ok" THEN Raise(g.err)
          ELSE LET rest == GpioListFrom(m, chanlist, i + 1)
               IN IF rest.err # "ok" THEN rest
                  ELSE Ok(<<g.val>> \o rest.val)

_gpio_list(m, chanlist) == GpioListFrom(m, chanlist, 1)

\* ------------------------------------------------------------------------
\* State
\* ------------------------------------------------------------------------
VARIABLES
  _mode,      \* the numbering mode: UNKNOWN, BOARD or BCM
  _chip,      \* None, or <<h>> for the open chip handle h
  _warnings,  \* whether warnings are emitted
  _alerts,    \* line -> None | <<alert>>: the registry of _Alert objects
  _pwms,      \* line -> None | <<pwm>>: the PWM objects that are alive
  handles,    \* lgpio: the set of chip handles that are open
  apiV2,      \* kernel: whether gpio_get_mode reports the edge flags
  gp,         \* kernel: line -> [lg, pull, level, eflags, tx]
  leaked,     \* lgpio: line -> the callback lists of the alerts dropped
              \* from the registry whose lgpio callback was never cancelled
  waiter,     \* the thread inside wait_for_edge, or idle
  last        \* the call that was issued last: what it was given, what it
              \* returned or raised, and the state it found

vars == <<_mode, _chip, _warnings, _alerts, _pwms, handles, apiV2, gp, leaked,
          waiter, last>>


\* The module's and the environment's state as one record, so that a handler
\* is an operator from the state it finds to the state it leaves.
Cur ==
  [mode |-> _mode, chip |-> _chip, warnings |-> _warnings, alerts |-> _alerts,
   pwms |-> _pwms,
   handles |-> handles, v2 |-> apiV2, gp |-> gp, leaked |-> leaked,
   waiter |-> waiter]

\* What a handler comes to: the state it leaves, the error it raised ("ok"
\* for none), the value it returned and whether it emitted a warning.
Done(S) == [s |-> S, err |-> "ok", ret |-> None, warned |-> FALSE]
Return(S, v) == [s |-> S, err |-> "ok", ret |-> Some(v), warned |-> FALSE]
Fail(S, e) == [s |-> S, err |-> e, ret |-> None, warned |-> FALSE]

\* ------------------------------------------------------------------------
\* lgpio and the kernel's line table, as the module's calls see them
\* ------------------------------------------------------------------------
\* tx: None, or <<frequency, duty cycle>> of the pulses lgpio generates
FreeLine == [lg |-> 0, pull |-> 0, level |-> 0, eflags |-> 0, tx |-> None]

RECURSIVE BitAnd(_, _)
BitAnd(a, b) ==
  IF a = 0 \/ b = 0 THEN 0
  ELSE (a % 2) * (b % 2) + 2 * BitAnd(a \div 2, b \div 2)

\* lgpio.gpio_get_mode: bit 0 kernel in use, bit 1 kernel output, bits 5-7
\* the pulls, bits 8-10 lgpio's own claim, bits 17-18 the rising and falling
\* edge flags, which only a kernel with gpiochip API v2 reports.
gpio_get_mode(S, gpio) ==
  LET L == S.gp[gpio]
  IN (IF L.lg # 0 THEN 1 ELSE 0) + (IF L.lg = _LG_OUTPUT THEN 2 ELSE 0)
     + L.pull + L.lg + (IF S.v2 THEN L.eflags * 131072 ELSE 0)

\* lgpio.gpio_free: an error for a line this process has not claimed
gpio_free_ok(S, gpio) == S.gp[gpio].lg # 0
gpio_free(S, gpio) ==
  IF gpio_free_ok(S, gpio)
    THEN [S EXCEPT !.gp[gpio].lg = 0, !.gp[gpio].pull = 0,
                   !.gp[gpio].eflags = 0, !.gp[gpio].tx = None]
    ELSE S

\* lgpio.gpio_claim_input: the line flags of a line that is already an
\* input are not changed by claiming it again (the comment in setup)
gpio_claim_input(S, gpio, lflags) ==
  IF S.gp[gpio].lg = _LG_INPUT THEN S
  ELSE [S EXCEPT !.gp[gpio].lg = _LG_INPUT, !.gp[gpio].pull = lflags,
                 !.gp[gpio].eflags = 0, !.gp[gpio].tx = None]

\* lgpio.gpio_claim_output: the line drives the given level
gpio_claim_output(S, gpio, level, lflags) ==
  [S EXCEPT !.gp[gpio].lg = _LG_OUTPUT, !.gp[gpio].pull = lflags,
            !.gp[gpio].eflags = 0, !.gp[gpio].level = level]

\* lgpio.gpio_claim_alert: the line reports the edges of eflags
gpio_claim_alert(S, gpio, eflags, lflags) ==
  [S EXCEPT !.gp[gpio].lg = _LG_ALERT, !.gp[gpio].pull = lflags,
            !.gp[gpio].eflags = eflags, !.gp[gpio].tx = None]

\* lgpio.gpio_read: the level of the line; a line nobody has claimed is
\* claimed as an input by the read
gpio_read(S, gpio) == S.gp[gpio].level
after_gpio_read(S, gpio) ==
  IF S.gp[gpio].lg = 0 THEN gpio_claim_input(S, gpio, 0) ELSE S

\* lgpio.gpio_write on an output
gpio_write(S, gpio, level) == [S EXCEPT !.gp[gpio].level = level]

\* (mutant) the test lets every line through
_check_input_AnyClaim(mode) == TRUE

\* ------------------------------------------------------------------------
\* Checks
\* ------------------------------------------------------------------------
_in_use(S, gpio) == BitAnd(gpio_get_mode(S, gpio), _LG_MODES) # 0
_check_input(mode) == BitAnd(mode, _LG_INPUT + _LG_ALERT) # 0
_check_output(mode) == BitAnd(mode, _LG_OUTPUT) # 0
_check_edge(edge) == edge \in {FALLING, RISING, BOTH}

\* _check_bounce: -666 stands for None; any other value must be positive
_check_bounce(bouncetime) ==
  LET b == IF bouncetime = Some(-666) THEN None ELSE bouncetime
  IN IF b # None /\ b[1] <= 0 THEN Raise("InvalidArgument") ELSE Ok(b)

\* ------------------------------------------------------------------------
\* Alerts
\* ------------------------------------------------------------------------
\* _Alert.__init__: the requested edge and bouncetime, no callbacks, nothing
\* detected; its lgpio callback is registered until close() cancels it
NewAlert(edge, bouncetime) ==
  [edge |-> edge, bouncetime |-> bouncetime, callbacks |-> <<>>,
   detected |-> FALSE]

\* _Alert.edge: the kernel's edge flags when it reports them, as lgpio's
\* constants, and the stored value otherwise
AlertEdge(S, gpio, alert) ==
  LET mode == (gpio_get_mode(S, gpio) \div 131072) % 4
  IN IF mode = 1 THEN LG_RISING_EDGE
     ELSE IF mode = 2 THEN LG_FALLING_EDGE
     ELSE IF mode = 3 THEN LG_BOTH_EDGES
     ELSE alert.edge

\* _unset_alert: pop the alert and cancel its callback; nothing if none
_unset_alert(S, gpio) == [S EXCEPT !.alerts[gpio] = None]

\* _get_alert: KeyError when the line is not in alert mode or has no alert,
\* ConflictingWatch when the edge or the bouncetime differs
_get_alert(S, gpio, mode, edge, bouncetime) ==
  IF BitAnd(mode, _LG_ALERT) = 0 THEN "KeyError"
  ELSE IF S.alerts[gpio] = None THEN "KeyError"
  ELSE LET alert == S.alerts[gpio][1]
       IN IF AlertEdge(S, gpio, alert) # edge \/ alert.bouncetime # bouncetime
            THEN "ConflictingWatch" ELSE "ok"

\* the edge flags gpio_claim_alert is given for an edge
EdgeFlags(edge) ==
  IF edge = RISING THEN LG_RISING_EDGE
  ELSE IF edge = FALLING THEN LG_FALLING_EDGE
  ELSE LG_BOTH_EDGES

\* _set_alert, its gpio_claim_alert succeeding: the line is claimed for the
\* edge with the pulls it had, and a new _Alert takes the line's place in
\* the registry; an alert that was there is dropped with its callback live
_set_alert(S, gpio, mode, edge, bouncetime) ==
  LET S1 == gpio_claim_alert(S, gpio, EdgeFlags(edge), BitAnd(mode, _LG_PULLS))
      old == S1.alerts[gpio]
  IN [S1 EXCEPT !.alerts[gpio] = Some(NewAlert(edge, bouncetime)),
                !.leaked[gpio] =
                   IF old = None THEN @ ELSE Append(@, old[1].callbacks)]


\* ------------------------------------------------------------------------
\* setmode, setwarnings
\* ------------------------------------------------------------------------
\* the handle lgpio.gpiochip_open returns: the lowest one that is not open
FreshHandle(S) == CHOOSE h \in 0..Cardinality(S.handles) : h \notin S.handles

\* (mutant) the chip is opened before the mode is validated
setmode_OpenFirst(S, new_mode, openOk) ==
  LET h == FreshHandle(S)
      S1 == IF S.chip = None /\ openOk
              THEN [S EXCEPT !.chip = Some(h), !.handles = @ \cup {h}]
              ELSE S
  IN IF S.mode # UNKNOWN /\ new_mode # S.mode THEN Fail(S1, "ModeConflict")
     ELSE IF new_mode \notin {BOARD, BCM} THEN Fail(S1, "InvalidMode")
     ELSE IF S1.chip = None THEN Fail(S1, "LowLevel")
     ELSE Done([S1 EXCEPT !.mode = new_mode])

\* (mutant) a chip is opened by every call, also when one is open
setmode_AlwaysOpen(S, new_mode, openOk) ==
  IF S.mode # UNKNOWN /\ new_mode # S.mode THEN Fail(S, "ModeConflict")
  ELSE IF new_mode \notin {BOARD, BCM} THEN Fail(S, "InvalidMode")
  ELSE IF ~openOk THEN Fail(S, "LowLevel")
  ELSE LET h == FreshHandle(S)
       IN Done([S EXCEPT !.chip = Some(h), !.handles = @ \cup {h},
                         !.mode = new_mode])

\* setmode(new_mode); openOk: whether lgpio.gpiochip_open succeeds
setmode(S, new_mode, openOk) ==
  IF S.mode # UNKNOWN /\ new_mode # S.mode THEN Fail(S, "ModeConflict")
  ELSE IF new_mode \notin {BOARD, BCM} THEN Fail(S, "InvalidMode")
  ELSE IF S.chip = None
    THEN IF ~openOk THEN Fail(S, "LowLevel")
         ELSE LET h == FreshHandle(S)
              IN Done([S EXCEPT !.chip = Some(h), !.handles = @ \cup {h},
                                !.mode = new_mode])
  ELSE Done([S EXCEPT !.mode = new_mode])

setwarnings(S, value) == Done([S EXCEPT !.warnings = value])

\* ------------------------------------------------------------------------
\* cleanup
\* ------------------------------------------------------------------------
RECURSIVE SortedSeq(_)
SortedSeq(set) ==
  IF set = {} THEN <<>>
  ELSE LET m == CHOOSE x \in set : \A y \in set : x <= y
       IN <<m>> \o SortedSeq(set \ {m})

\* the body of cleanup's loop for one line; errors of the lgpio calls are
\* ignored
CleanupOne(S, gpio) ==
  gpio_free(gpio_claim_input(_unset_alert(S, gpio), gpio, _LG_PULL_NONE), gpio)

RECURSIVE CleanupLoop(_, _, _)
CleanupLoop(S, gpios, i) ==
  IF i > Len(gpios) THEN S
  ELSE CleanupLoop(CleanupOne(S, gpios[i]), gpios, i + 1)

\* (mutant) the chip is closed but the numbering mode is kept
CleanupLines_KeepMode(S, gpios, close) ==
  LET S1 == CleanupLoop(S, gpios, 1)
      S2 == IF close
              THEN [S1 EXCEPT !.handles = @ \ {S.chip[1]}, !.chip = None]
              ELSE S1
  IN [s |-> S2, err |-> "ok", ret |-> None,
      warned |-> gpios = <<>> /\ S.warnings]

\* what cleanup does once the chip has been found open and the lines listed
CleanupLines(S, gpios, close) ==
  LET S1 == CleanupLoop(S, gpios, 1)
      S2 == IF close
              THEN [S1 EXCEPT !.handles = @ \ {S.chip[1]}, !.chip = None,
                              !.mode = UNKNOWN]
              ELSE S1
  IN [s |-> S2,
      err |-> IF close /\ (\E g \in Lines : S2.alerts[g] # None)
                THEN "AssertionError" ELSE "ok",
      ret |-> None,
      warned |-> gpios = <<>> /\ S.warnings]

\* cleanup(chanlist); chanlist is None for "everything"
cleanup(S, chanlist) ==
  IF S.chip = None THEN Done(S)
  ELSE IF chanlist = None
    THEN CleanupLines(S, SortedSeq({g \in Lines : _in_use(S, g)}), TRUE)
  ELSE LET gl == _gpio_list(S.mode, chanlist[1])
       IN IF gl.err # "ok" THEN Fail(S, gl.err)
          ELSE CleanupLines(S, gl.val, FALSE)

\* ------------------------------------------------------------------------
\* setup
\* ------------------------------------------------------------------------
\* the pull flag gpio_claim_input is given for pull_up_down
PullFlag(pull_up_down) ==
  IF pull_up_down = PUD_OFF THEN _LG_PULL_NONE
  ELSE IF pull_up_down = PUD_DOWN THEN _LG_PULL_DOWN
  ELSE _LG_PULL_UP

\* setup's loop from the i-th line on.  initial is the loop's variable of
\* that name: once a level has been read into it, it stays set for the
\* lines that follow.  failAt is the position of the line whose claim the
\* kernel refuses (0 for none).
RECURSIVE SetupLoop(_, _, _, _, _, _, _)
SetupLoop(S, gpios, i, direction, pull_up_down, initial, failAt) ==
  IF i > Len(gpios) THEN Done(S)
  ELSE LET gpio == gpios[i]
       IN IF S.warnings /\ gpio \in {2, 3}
            THEN Fail(S, "NameError")  \* the name pull is not defined
          ELSE IF direction = DIR_IN
            THEN LET S1 == gpio_free(S, gpio)
                 IN IF failAt = i THEN Fail(S1, "LowLevel")
                    ELSE SetupLoop(
                           gpio_claim_input(S1, gpio, PullFlag(pull_up_down)),
                           gpios, i + 1, direction, pull_up_down, initial,
                           failAt)
          ELSE LET S1 == _unset_alert(S, gpio)
                   init1 == IF initial = None
                              THEN Some(gpio_read(S1, gpio)) ELSE initial
                   S2 == IF initial = None
                           THEN after_gpio_read(S1, gpio) ELSE S1
               IN IF failAt = i THEN Fail(S2, "LowLevel")
                  ELSE SetupLoop(
                         gpio_claim_output(S2, gpio, init1[1], _LG_PULL_NONE),
                         gpios, i + 1, direction, pull_up_down, init1, failAt)

\* (mutant) an input's initial value is refused after the lines were claimed
setup_LateInitialCheck(S, chanlist, direction, pull_up_down, initial, failAt) ==
  IF direction = DIR_OUT /\ pull_up_down # PUD_OFF
    THEN Fail(S, "InvalidArgument")
  ELSE IF direction = DIR_IN /\ pull_up_down \notin {PUD_UP, PUD_DOWN, PUD_OFF}
    THEN Fail(S, "InvalidArgument")
  ELSE IF direction \notin {DIR_OUT, DIR_IN}
    THEN Fail(S, "InvalidArgument")
  ELSE LET gl == _gpio_list(S.mode, chanlist)
       IN IF gl.err # "ok" THEN Fail(S, gl.err)
          ELSE LET o == SetupLoop(S, gl.val, 1, direction, pull_up_down,
                                  IF direction = DIR_IN THEN None ELSE initial,
                                  failAt)
               IN IF direction = DIR_IN /\ initial # None /\ o.err = "ok"
                    THEN Fail(o.s, "InvalidArgument")
                    ELSE o

\* setup(chanlist, direction, pull_up_down, initial)
setup(S, chanlist, direction, pull_up_down, initial, failAt) ==
  IF direction = DIR_OUT /\ pull_up_down # PUD_OFF
    THEN Fail(S, "InvalidArgument")
  ELSE IF direction = DIR_IN /\ initial # None
    THEN Fail(S, "InvalidArgument")
  ELSE IF direction = DIR_IN /\ pull_up_down \notin {PUD_UP, PUD_DOWN, PUD_OFF}
    THEN Fail(S, "InvalidArgument")
  ELSE IF direction \notin {DIR_OUT, DIR_IN}
    THEN Fail(S, "InvalidArgument")
  ELSE LET gl == _gpio_list(S.mode, chanlist)
       IN IF gl.err # "ok" THEN Fail(S, gl.err)
          ELSE SetupLoop(S, gl.val, 1, direction, pull_up_down, initial,
                         failAt)

\* ------------------------------------------------------------------------
\* input, output
\* ------------------------------------------------------------------------
\* (mutant) the line is read without the test of _in_use
input_NoInUseTest(S, channel) ==
  LET g == _to_gpio(S.mode, channel)
  IN IF g.err # "ok" THEN Fail(S, g.err)
     ELSE Return(after_gpio_read(S, g.val), gpio_read(S, g.val))

\* input(channel)
input(S, channel) ==
  LET g == _to_gpio(S.mode, channel)
  IN IF g.err # "ok" THEN Fail(S, g.err)
     ELSE IF ~_in_use(S, g.val) THEN Fail(S, "NotClaimed")
     ELSE Return(S, gpio_read(S, g.val))

\* output's loop over zip(gpios, values) from the i-th pair on
RECURSIVE OutputLoop(_, _, _, _)
OutputLoop(S, gpios, values, i) ==
  IF i > Len(gpios) \/ i > Len(values) THEN Done(S)
  ELSE IF ~_check_output(gpio_get_mode(S, gpios[i])) THEN Fail(S, "NotOutput")
  ELSE OutputLoop(gpio_write(S, gpios[i], values[i]), gpios, values, i + 1)

\* values * len(gpios) for a one-element tuple
Repeat(values, n) == [i \in 1..(n * Len(values)) |-> values[((i - 1) % Len(values)) + 1]]

\* (mutant) a single value is not repeated for the lines: zip stops after
\* the first pair
output_NoBroadcast(S, channel, value) ==
  LET gl == _gpio_list(S.mode, channel)
  IN IF gl.err # "ok" THEN Fail(S, gl.err)
     ELSE IF Len(gl.val) # Len(value) /\ ~(Len(gl.val) > 1 /\ Len(value) = 1)
       THEN Fail(S, "CountMismatch")
     ELSE OutputLoop(S, gl.val, value, 1)

\* (mutant) a batch that fails is undone: no line keeps a value of it
output_AllOrNothing(S, channel, value) ==
  LET gl == _gpio_list(S.mode, channel)
      o == IF Len(gl.val) # Len(value)
             THEN IF Len(gl.val) > 1 /\ Len(value) = 1
                    THEN OutputLoop(S, gl.val, Repeat(value, Len(gl.val)), 1)
                    ELSE Fail(S, "CountMismatch")
             ELSE OutputLoop(S, gl.val, value, 1)
  IN IF gl.err # "ok" THEN Fail(S, gl.err)
     ELSE IF o.err = "NotOutput" THEN Fail(S, "NotOutput")
     ELSE o

\* output(channel, value); both are sequences (a single integer is the
\* one-element sequence)
output(S, channel, value) ==
  LET gl == _gpio_list(S.mode, channel)
  IN IF gl.err # "ok" THEN Fail(S, gl.err)
     ELSE IF Len(gl.val) # Len(value)
       THEN IF Len(gl.val) > 1 /\ Len(value) = 1
              THEN OutputLoop(S, gl.val, Repeat(value, Len(gl.val)), 1)
              ELSE Fail(S, "CountMismatch")
     ELSE OutputLoop(S, gl.val, value, 1)


\* ------------------------------------------------------------------------
\* Edge detection
\* ------------------------------------------------------------------------
\* A callback is a string: "cb1" and "cb2" are the caller's callables,
\* "notify" is the lambda of the wait_for_edge call in progress (it sets that
\* call's Event), "stale" the lambda of a call that has returned.
\* "notcallable" is an argument that is no callable.
Callable(cb) == cb # "notcallable"

AppendCallback(S, gpio, cb) ==
  [S EXCEPT !.alerts[gpio] = Some([@[1] EXCEPT !.callbacks = Append(@, cb)])]

\* the common start of add_event_detect and wait_for_edge: the line, its
\* mode and the checked arguments, or the error raised
WatchArgs(S, channel, edge, bouncetime) ==
  LET g == _to_gpio(S.mode, channel)
  IN IF g.err # "ok" THEN Raise(g.err)
     ELSE LET mode == gpio_get_mode(S, g.val)
              b == _check_bounce(bouncetime)
          IN IF ~_check_input(mode) THEN Raise("NotInput")
             ELSE IF ~_check_edge(edge) THEN Raise("InvalidArgument")
             ELSE IF b.err # "ok" THEN Raise(b.err)
             ELSE Ok([gpio |-> g.val, mode |-> mode, bouncetime |-> b.val])

\* add_event_detect(channel, edge, callback, bouncetime); claimOk: whether
\* lgpio.gpio_claim_alert succeeds when it is called
add_event_detect(S, channel, edge, callback, bouncetime, claimOk) ==
  IF callback # None /\ ~Callable(callback[1]) THEN Fail(S, "TypeError")
  ELSE LET a == WatchArgs(S, channel, edge, bouncetime)
       IN IF a.err # "ok" THEN Fail(S, a.err)
          ELSE LET gpio == a.val.gpio
                   got == _get_alert(S, gpio, a.val.mode, edge, a.val.bouncetime)
                   S1 == IF got = "KeyError"
                           THEN _set_alert(S, gpio, a.val.mode, edge,
                                           a.val.bouncetime)
                           ELSE S
               IN IF got = "ConflictingWatch" THEN Fail(S, got)
                  ELSE IF got = "KeyError" /\ ~claimOk THEN Fail(S, "LowLevel")
                  ELSE IF callback # None
                    THEN Done(AppendCallback(S1, gpio, callback[1]))
                  ELSE Done(S1)

\* (mutant) the callback is added without the test that the line is an input
add_event_callback_NoInputTest(S, channel, callback) ==
  IF ~Callable(callback) THEN Fail(S, "TypeError")
  ELSE LET g == _to_gpio(S.mode, channel)
       IN IF g.err # "ok" THEN Fail(S, g.err)
          ELSE IF S.alerts[g.val] = None THEN Fail(S, "NoActiveWatch")
          ELSE Done(AppendCallback(S, g.val, callback))

\* add_event_callback(channel, callback)
add_event_callback(S, channel, callback) ==
  IF ~Callable(callback) THEN Fail(S, "TypeError")
  ELSE LET g == _to_gpio(S.mode, channel)
       IN IF g.err # "ok" THEN Fail(S, g.err)
          ELSE IF ~_check_input(gpio_get_mode(S, g.val)) THEN Fail(S, "NotInput")
          ELSE IF S.alerts[g.val] = None THEN Fail(S, "NoActiveWatch")
          ELSE Done(AppendCallback(S, g.val, callback))

\* remove_event_detect(channel)
remove_event_detect(S, channel) ==
  LET g == _to_gpio(S.mode, channel)
  IN IF g.err # "ok" THEN Fail(S, g.err) ELSE Done(_unset_alert(S, g.val))

\* (mutant) every exception is caught, not the KeyError alone
event_detected_CatchAll(S, channel) ==
  LET g == _to_gpio(S.mode, channel)
  IN IF g.err # "ok" THEN Return(S, FALSE)
     ELSE IF S.alerts[g.val] = None THEN Return(S, FALSE)
     ELSE IF S.alerts[g.val][1].detected
       THEN Return([S EXCEPT !.alerts[g.val] =
                               Some([@[1] EXCEPT !.detected = FALSE])], TRUE)
     ELSE Return(S, FALSE)

\* event_detected(channel): _Alert.detected reads and clears the flag; only
\* the KeyError of a line without an alert is caught
event_detected(S, channel) ==
  LET g == _to_gpio(S.mode, channel)
  IN IF g.err # "ok" THEN Fail(S, g.err)
     ELSE IF S.alerts[g.val] = None THEN Return(S, FALSE)
     ELSE IF S.alerts[g.val][1].detected
       THEN Return([S EXCEPT !.alerts[g.val] =
                               Some([@[1] EXCEPT !.detected = FALSE])], TRUE)
     ELSE Return(S, FALSE)

\* ------------------------------------------------------------------------
\* wait_for_edge
\* ------------------------------------------------------------------------
IdleWaiter ==
  [pc |-> "idle", gpio |-> 0, channel |-> 0, unset |-> FALSE,
   timeout |-> None, evt |-> FALSE]

\* (mutant) the timeout is checked after the _Alert was looked up or made
wait_for_edge_LateTimeoutCheck(S, channel, edge, bouncetime, timeout, claimOk) ==
  LET a == WatchArgs(S, channel, edge, bouncetime)
  IN IF a.err # "ok" THEN Fail(S, a.err)
     ELSE LET gpio == a.val.gpio
              got == _get_alert(S, gpio, a.val.mode, edge, a.val.bouncetime)
              unset == got = "KeyError"
              S1 == IF unset
                      THEN _set_alert(S, gpio, a.val.mode, edge, a.val.bouncetime)
                      ELSE S
          IN IF got = "ConflictingWatch" THEN Fail(S, got)
             ELSE IF unset /\ ~claimOk THEN Fail(S, "LowLevel")
             ELSE IF ~unset /\ S.alerts[gpio][1].callbacks # <<>>
               THEN Fail(S, "ConflictingWatch")
             ELSE IF timeout # None /\ timeout[1] <= 0
               THEN Fail(S1, "InvalidArgument")
             ELSE [s |-> [AppendCallback(S1, gpio, "notify") EXCEPT
                            !.waiter = [pc |-> "blocked", gpio |-> gpio,
                                        channel |-> channel, unset |-> unset,
                                        timeout |-> timeout, evt |-> FALSE]],
                   err |-> "blocked", ret |-> None, warned |-> FALSE]

\* wait_for_edge up to evt.wait(timeout): the thread is then blocked with
\* its lambda in the alert's callbacks
wait_for_edge(S, channel, edge, bouncetime, timeout, claimOk) ==
  LET a == WatchArgs(S, channel, edge, bouncetime)
  IN IF a.err # "ok" THEN Fail(S, a.err)
     ELSE IF timeout # None /\ timeout[1] <= 0 THEN Fail(S, "InvalidArgument")
     ELSE LET gpio == a.val.gpio
              got == _get_alert(S, gpio, a.val.mode, edge, a.val.bouncetime)
              unset == got = "KeyError"
              S1 == IF unset
                      THEN _set_alert(S, gpio, a.val.mode, edge, a.val.bouncetime)
                      ELSE S
          IN IF got = "ConflictingWatch" THEN Fail(S, got)
             ELSE IF unset /\ ~claimOk THEN Fail(S, "LowLevel")
             ELSE IF ~unset /\ S.alerts[gpio][1].callbacks # <<>>
               THEN Fail(S, "ConflictingWatch")
             ELSE [s |-> [AppendCallback(S1, gpio, "notify") EXCEPT
                            !.waiter = [pc |-> "blocked", gpio |-> gpio,
                                        channel |-> channel, unset |-> unset,
                                        timeout |-> timeout, evt |-> FALSE]],
                   err |-> "blocked", ret |-> None, warned |-> FALSE]

\* the lambda of a call that has returned sets an Event nobody waits on
RetireIn(callbacks) ==
  [i \in 1..Len(callbacks) |->
     IF callbacks[i] = "notify" THEN "stale" ELSE callbacks[i]]

Retire(alert) == [alert EXCEPT !.callbacks = RetireIn(@)]

RetireAll(S) ==
  [S EXCEPT
     !.alerts = [g \in Lines |->
                   IF @[g] = None THEN None ELSE Some(Retire(@[g][1]))],
     !.leaked = [g \in Lines |->
                   [i \in 1..Len(@[g]) |-> RetireIn(@[g][i])]]]

\* wait_for_edge from the return of evt.wait(timeout) on: the channel if
\* the Event was set, None if the timeout elapsed first
wait_return(S) ==
  LET w == S.waiter
      S1 == IF w.unset THEN _unset_alert(S, w.gpio) ELSE S
      S2 == [RetireAll(S1) EXCEPT !.waiter = IdleWaiter]
  IN IF w.evt THEN Return(S2, w.channel) ELSE Done(S2)

\* ------------------------------------------------------------------------
\* Edge events
\* ------------------------------------------------------------------------
\* _Alert._call for a level that is no watchdog report: the flag is set and
\* every callback is called; an exception of one is printed and dropped
Call(alert) == [alert EXCEPT !.detected = TRUE]

\* (mutant) the watchdog report is taken for an edge
AlertCall_NoWatchdogTest(alert, level) == Call(alert)

\* _Alert._call(chip, gpio, level, timestamp): level 2 is lgpio's watchdog
\* report, for which nothing is done
AlertCall(alert, level) == IF level = 2 THEN alert ELSE Call(alert)

\* lgpio's callback thread delivering a watchdog report of the line
watchdog(S, gpio) ==
  [S EXCEPT !.alerts[gpio] = IF @ = None THEN None ELSE Some(AlertCall(@[1], 2))]

Notifies(callbacks) == \E i \in 1..Len(callbacks) : callbacks[i] = "notify"

\* the calls one _Alert._call makes for a report of the line: each of its
\* callbacks in turn, with _from_gpio(gpio) in the mode that is set (an
\* exception, of _from_gpio too, is printed and the loop goes on)
CallsOf(S, gpio, callbacks) ==
  [i \in 1..Len(callbacks) |-> <<callbacks[i], _from_gpio(S.mode, gpio)>>]

RECURSIVE LeakedCalls(_, _, _)
LeakedCalls(S, gpio, i) ==
  IF i > Len(S.leaked[gpio]) THEN <<>>
  ELSE CallsOf(S, gpio, S.leaked[gpio][i]) \o LeakedCalls(S, gpio, i + 1)

\* every call made for one report of the line: lgpio calls the _call of
\* each callback registered for the line and not cancelled, oldest first
Invoked(S, gpio) ==
  LeakedCalls(S, gpio, 1)
    \o (IF S.alerts[gpio] = None THEN <<>>
        ELSE CallsOf(S, gpio, S.alerts[gpio][1].callbacks))

\* lgpio's callback thread delivering one report of the line to every
\* callback registered for it
Deliver(S, gpio) ==
  LET hit == (S.alerts[gpio] # None /\ Notifies(S.alerts[gpio][1].callbacks))
             \/ (\E i \in 1..Len(S.leaked[gpio]) : Notifies(S.leaked[gpio][i]))
  IN [S EXCEPT
        !.alerts[gpio] = IF @ = None THEN None ELSE Some(Call(@[1])),
        !.waiter = IF hit THEN [@ EXCEPT !.evt = TRUE] ELSE @]

\* the level of a line that is not driven by this process changes; the
\* kernel reports it if the line is claimed for alerts on that edge
Reports(L, level) ==
  /\ L.lg = _LG_ALERT
  /\ BitAnd(L.eflags, IF level = 1 THEN LG_RISING_EDGE ELSE LG_FALLING_EDGE) # 0

line_change(S, gpio) ==
  LET level == 1 - S.gp[gpio].level
      S1 == [S EXCEPT !.gp[gpio].level = level]
  IN IF Reports(S1.gp[gpio], level) THEN Deliver(S1, gpio) ELSE S1


\* ------------------------------------------------------------------------
\* PWM
\* ------------------------------------------------------------------------
\* lgpio.tx_pwm(_chip, gpio, 0, 0): the pulses of an output stop; for a line
\* that is no output lgpio raises an error
tx_pwm_ok(S, gpio) == S.chip # None /\ S.gp[gpio].lg = _LG_OUTPUT
tx_pwm_off(S, gpio) ==
  IF tx_pwm_ok(S, gpio) THEN [S EXCEPT !.gp[gpio].tx = None] ELSE S

\* lgpio.gpio_write(_chip, gpio, 0) as PWM.stop calls it: an output is set
\* low, a line nobody has claimed is claimed as an output at that level, and
\* for any other line (or with no chip open) lgpio raises an error
StopWrite(S, gpio) ==
  IF S.chip = None THEN S
  ELSE IF S.gp[gpio].lg = _LG_OUTPUT THEN gpio_write(S, gpio, 0)
  ELSE IF S.gp[gpio].lg = 0 THEN gpio_claim_output(S, gpio, 0, 0)
  ELSE S

\* PWM.stop's effect on the line, as PWM.__del__ runs it once the object of
\* a failed PWM(...) is dropped: an exception in __del__ is ignored
DelStop(S, gpio) == StopWrite(tx_pwm_off(S, gpio), gpio)

\* (mutant) a PWM object is made for a line that has one
PWM_init_NoExistsCheck(S, channel, frequency) ==
  LET g == _to_gpio(S.mode, channel)
  IN IF g.err # "ok" THEN Fail(S, g.err)
     ELSE IF ~_check_output(gpio_get_mode(S, g.val))
       THEN Fail(DelStop(S, g.val), "NotOutput")
     ELSE IF frequency <= 0
       THEN Fail(DelStop(S, g.val), "InvalidArgument")
     ELSE Done([S EXCEPT !.pwms[g.val] =
                  Some([frequency |-> frequency, dc |-> None,
                        running |-> FALSE])])

\* PWM(channel, frequency); frequency is a number of Hz.  The object of a
\* call that raises is garbage: __del__ stops the line it was given, unless
\* the line was not yet stored in the object.
PWM_init(S, channel, frequency) ==
  LET g == _to_gpio(S.mode, channel)
  IN IF g.err # "ok" THEN Fail(S, g.err)
     ELSE IF S.pwms[g.val] # None
       THEN Fail(DelStop(S, g.val), "AlreadyExists")
     ELSE IF ~_check_output(gpio_get_mode(S, g.val))
       THEN Fail(DelStop(S, g.val), "NotOutput")
     ELSE IF frequency <= 0
       THEN Fail(DelStop(S, g.val), "InvalidArgument")
     ELSE Done([S EXCEPT !.pwms[g.val] =
                  Some([frequency |-> frequency, dc |-> None,
                        running |-> FALSE])])

\* PWM.ChangeDutyCycle(dc) of the object of a line: the value is stored
\* before it is checked; a running object has its pulses changed
PWM_ChangeDutyCycle(S, gpio, dc) ==
  LET S1 == [S EXCEPT !.pwms[gpio] = Some([@[1] EXCEPT !.dc = Some(dc)])]
      pwm == S1.pwms[gpio][1]
  IN IF ~(0 <= dc /\ dc <= 100) THEN Fail(S1, "InvalidArgument")
     ELSE IF ~pwm.running THEN Done(S1)
     ELSE IF ~tx_pwm_ok(S1, gpio) THEN Fail(S1, "LowLevel")
     ELSE Done([S1 EXCEPT !.gp[gpio].tx = Some(<<pwm.frequency, dc>>)])

\* PWM.ChangeFrequency(frequency) of the object of a line: the value is
\* stored before it is checked; a running object has its pulses changed,
\* which lgpio refuses for a duty cycle that is not within 0..100
PWM_ChangeFrequency(S, gpio, frequency) ==
  LET S1 == [S EXCEPT !.pwms[gpio] = Some([@[1] EXCEPT !.frequency = frequency])]
      pwm == S1.pwms[gpio][1]
  IN IF frequency <= 0 THEN Fail(S1, "InvalidArgument")
     ELSE IF ~pwm.running THEN Done(S1)
     ELSE IF ~tx_pwm_ok(S1, gpio) \/ pwm.dc = None
             \/ ~(0 <= pwm.dc[1] /\ pwm.dc[1] <= 100)
       THEN Fail(S1, "LowLevel")
     ELSE Done([S1 EXCEPT !.gp[gpio].tx = Some(<<frequency, pwm.dc[1]>>)])

\* PWM.start(dc): the duty cycle is set, the object is marked running and
\* then lgpio.tx_pwm is called, which raises for a line that is no output
PWM_start(S, gpio, dc) ==
  LET c == PWM_ChangeDutyCycle(S, gpio, dc)
      S1 == [c.s EXCEPT !.pwms[gpio] = Some([@[1] EXCEPT !.running = TRUE])]
  IN IF c.err # "ok" THEN c
     ELSE IF ~tx_pwm_ok(S1, gpio) THEN Fail(S1, "LowLevel")
     ELSE Done([S1 EXCEPT !.gp[gpio].tx =
                            Some(<<S1.pwms[gpio][1].frequency, dc>>)])

\* whether the lgpio.gpio_write(_chip, gpio, 0) of PWM.stop succeeds
StopWriteOk(S, gpio) ==
  S.chip # None /\ S.gp[gpio].lg \in {_LG_OUTPUT, 0}

\* PWM.stop(): the lgpio.error of tx_pwm is caught; gpio_write is called
\* outside the try, so its exception leaves stop() before _running is
\* cleared.  With no chip open both calls are given None for the handle.
PWM_stop(S, gpio) ==
  LET S1 == tx_pwm_off(S, gpio)
  IN IF ~StopWriteOk(S1, gpio) THEN Fail(S1, "LowLevel")
     ELSE Done([StopWrite(S1, gpio) EXCEPT
                  !.pwms[gpio] = Some([@[1] EXCEPT !.running = FALSE])])

\* the last reference to the object of a line is dropped: __del__ runs
\* stop(), an exception of which is ignored, and the entry of the
\* WeakValueDictionary goes with the object
PWM_del(S, gpio) == Done([PWM_stop(S, gpio).s EXCEPT !.pwms[gpio] = None])

\* ------------------------------------------------------------------------
\* The state machine
\* ------------------------------------------------------------------------
\* what a call found: the part of the state its claims speak of
Snap(S) ==
  [mode |-> S.mode, chip |-> S.chip, handles |-> S.handles,
   level |-> [g \in Lines |-> S.gp[g].level]]

NoCall ==
  [op |-> "none", args |-> <<>>, err |-> "ok", ret |-> None, warned |-> FALSE,
   pre |-> <<>>]

Init ==
  /\ _mode = UNKNOWN
  /\ _chip = None
  /\ _warnings \in BOOLEAN
  /\ _alerts = [g \in Lines |-> None]
  /\ _pwms = [g \in Lines |-> None]
  /\ handles = {}
  /\ apiV2 \in BOOLEAN
  /\ gp = [g \in Lines |-> FreeLine]
  /\ leaked = [g \in Lines |-> <<>>]
  /\ waiter = IdleWaiter
  /\ last = NoCall

\* the bounds: a step that would take a list past its bound is not taken
WithinBounds(S) ==
  \A g \in Lines :
    /\ Len(S.leaked[g]) <= MaxLeaked
    /\ S.alerts[g] # None => Len(S.alerts[g][1].callbacks) <= MaxCallbacks

Becomes(S) ==
  /\ WithinBounds(S)
  /\ _mode' = S.mode
  /\ _chip' = S.chip
  /\ _warnings' = S.warnings
  /\ _alerts' = S.alerts
  /\ _pwms' = S.pwms
  /\ handles' = S.handles
  /\ apiV2' = S.v2
  /\ gp' = S.gp
  /\ leaked' = S.leaked
  /\ waiter' = S.waiter

\* a call of the API by the caller's thread, which is not inside
\* wait_for_edge
Call_(op, args, o) ==
  /\ waiter.pc = "idle"
  /\ \E r \in {o} :
       /\ Becomes(r.s)
       /\ last' = [op |-> op, args |-> args, err |-> r.err, ret |-> r.ret,
                   warned |-> r.warned, pre |-> Snap(Cur)]

\* ---- the calls, over the inputs a specification gives them ----
Setmode(modes) ==
  \E m \in modes, openOk \in BOOLEAN :
    Call_("setmode", <<m, openOk>>, setmode(Cur, m, openOk))

Cleanup(chanlists) ==
  \E cl \in chanlists : Call_("cleanup", <<cl>>, cleanup(Cur, cl))

\* setups: tuples <<chanlist, direction, pull_up_down, initial>>
Setup(setups, fails) ==
  \E a \in setups, failAt \in fails :
    Call_("setup", <<a[1], a[2], a[3], a[4], failAt>>,
          setup(Cur, a[1], a[2], a[3], a[4], failAt))

Input(channels) ==
  \E c \in channels : Call_("input", <<c>>, input(Cur, c))

Output(chanlists, valuelists) ==
  \E cl \in chanlists, vl \in valuelists :
    Call_("output", <<cl, vl>>, output(Cur, cl, vl))

\* the environment changes the level of a line this process does not drive;
\* it may do so while the caller is blocked in wait_for_edge
LineChange(lines) ==
  \E g \in lines :
    /\ gp[g].lg # _LG_OUTPUT
    /\ \E S \in {line_change(Cur, g)} : Becomes(S)
    /\ last' = [NoCall EXCEPT !.op = "line_change", !.args = <<g>>]

\* ------------------------------------------------------------------------
\* Spec: the numbering mode, the chip handle and the line controller
\* ------------------------------------------------------------------------
Channels == {4, 7, 54}
ModeInputs == {BOARD, BCM, 0}
ChanLists == {<<7>>, <<7, 4>>, <<54>>, <<>>}
ValueLists == {<<1>>, <<1, 0>>, <<>>}
Setups ==
  {<<cl, DIR_OUT, PUD_OFF, i>> : cl \in ChanLists, i \in {None, Some(1)}}
  \cup {<<cl, DIR_IN, p, None>> : cl \in ChanLists, p \in {PUD_OFF}}
  \cup {<<cl, d, PUD_UP, Some(1)>> : cl \in {<<7>>, <<>>}, d \in {DIR_OUT, DIR_IN, 2}}

\* the lines a channel of the model names in the mode that is set
Active == {g \in Lines : \E c \in Channels : _to_gpio(_mode, c) = Ok(g)}

SpecSetmode == Setmode(ModeInputs)
SpecCleanup == Cleanup({None, Some(<<7>>), Some(<<>>)})
SpecSetup == Setup(Setups, 0..1)
SpecInput == Input(Channels)
SpecOutput == Output(ChanLists \cup {<<4, 7, 4>>}, ValueLists)
SpecLineChange == LineChange(Active)

Next ==
  \/ SpecSetmode
  \/ SpecCleanup
  \/ SpecSetup
  \/ SpecInput
  \/ SpecOutput
  \/ SpecLineChange

\* No line is claimed for alerts here, so the kernel's API version, which
\* only shows in the edge flags of such a line, is left at one value.
SpecInit == Init /\ apiV2 = FALSE

Spec == SpecInit /\ [][Next]_vars


\* ------------------------------------------------------------------------
\* Claims about the numbering mode, the chip handle and the line controller
\* (checked under Spec)
\* ------------------------------------------------------------------------
ValidModes == {BOARD, BCM}

\* C1: setmode with the mode that is set succeeds and changes neither the
\* mode nor the chip handle; with the other recognised mode it fails with
\* ModeConflict; with an unrecognised value while no mode is set it fails
\* with InvalidMode; a setmode that fails leaves the mode, the chip handle
\* and the set of open handles as they were.
C1_SetModeContract ==
  last.op = "setmode" =>
    LET m == last.args[1]
        was == last.pre
        unchanged ==
          _mode = was.mode /\ _chip = was.chip /\ handles = was.handles
    IN /\ (was.mode # UNKNOWN /\ m = was.mode) => (last.err = "ok" /\ unchanged)
       /\ (was.mode # UNKNOWN /\ m \in ValidModes /\ m # was.mode)
            => last.err = "ModeConflict"
       /\ (was.mode = UNKNOWN /\ m \notin ValidModes) => last.err = "InvalidMode"
       /\ last.err # "ok" => unchanged

\* a setmode(BOARD) was refused in BCM mode
C1_Witness ==
  /\ last.op = "setmode" /\ last.args[1] = BOARD /\ last.pre.mode = BCM
  /\ last.err = "ModeConflict" /\ _mode = BCM /\ _chip # None

\* C2: when cleanup() of everything returns, having found the chip open, the
\* chip handle is closed and the mode is unset, and setmode with either mode
\* then succeeds (if the chip can be opened); so it is when no line was
\* claimed and only the warning is emitted.
C2_FreeAllResets ==
  /\ (last.op = "cleanup" /\ last.args[1] = None /\ last.pre.chip # None
        /\ last.err = "ok")
       => /\ _chip = None
          /\ _mode = UNKNOWN
          /\ last.pre.chip[1] \notin handles
          /\ \A m \in ValidModes :
               LET o == setmode(Cur, m, TRUE)
               IN o.err = "ok" /\ o.s.mode = m /\ o.s.chip # None
  /\ (last.op = "setmode" /\ last.pre.mode = UNKNOWN
        /\ last.args[1] \in ValidModes /\ last.args[2])
       => (last.err = "ok" /\ _mode = last.args[1] /\ _chip # None)

\* cleanup() found the chip open and no line claimed
C2_Witness ==
  /\ last.op = "cleanup" /\ last.args[1] = None /\ last.pre.chip # None
  /\ last.warned /\ last.err = "ok" /\ _mode = UNKNOWN /\ _chip = None

\* C3: at most one chip handle is open, and one is open exactly when the
\* numbering mode is set; setmode opens a handle only when none is open.
C3_OneHandle ==
  /\ Cardinality(handles) <= 1
  /\ (_chip # None) <=> (_mode # UNKNOWN)
  /\ handles = (IF _chip = None THEN {} ELSE {_chip[1]})
  /\ (last.op = "setmode" /\ handles # last.pre.handles)
       => last.pre.handles = {}

\* setmode was called again with the chip open
C3_Witness ==
  /\ last.op = "setmode" /\ last.err = "ok" /\ last.pre.chip # None
  /\ Cardinality(handles) = 1

\* C4: in BOARD mode every position of the table translates to a line that
\* translates back to the position, and on to the same line again; no two
\* positions share a line.
C4_BoardRoundTrip ==
  _mode = BOARD =>
    \A p \in DictKeys(_BOARD_MAP) :
      LET g == _to_gpio(_mode, p)
      IN /\ g.err = "ok"
         /\ _from_gpio(_mode, g.val) = Ok(p)
         /\ _to_gpio(_mode, _from_gpio(_mode, g.val).val) = g
         /\ \A q \in DictKeys(_BOARD_MAP) : _to_gpio(_mode, q) = g => q = p

\* a line was claimed by its position in BOARD mode
C4_Witness ==
  /\ _mode = BOARD /\ last.op = "setup" /\ last.err = "ok"
  /\ last.args[1] = <<7>> /\ gp[4].lg # 0

\* the channels _to_gpio is tried on
ProbeChannels == (-2)..56

\* what _to_gpio is to return, from the claim's words
ToLineAsClaimed(m, channel) ==
  IF m = UNKNOWN THEN Raise("ModeNotSet")
  ELSE IF m = BCM
    THEN IF channel \in 0..53 THEN Ok(channel) ELSE Raise("InvalidChannel")
  ELSE IF \E i \in 1..Len(BOARD_MAP_ITEMS) : BOARD_MAP_ITEMS[i][1] = channel
    THEN Ok(BOARD_MAP_ITEMS[CHOOSE i \in 1..Len(BOARD_MAP_ITEMS) :
                              BOARD_MAP_ITEMS[i][1] = channel][2])
  ELSE Raise("InvalidChannel")

C5_ToLine == \A c \in ProbeChannels : _to_gpio(_mode, c) = ToLineAsClaimed(_mode, c)

\* the state cleanup() of everything has just left
AfterFreeAll ==
  /\ last.op = "cleanup" /\ last.args[1] = None /\ last.pre.chip # None
  /\ last.err = "ok"

\* the arguments the channel-keyed calls are tried with
ProbeSetups ==
  {<<cl, d, p, i>> : cl \in {<<7>>, <<>>}, d \in {DIR_OUT, DIR_IN, 2},
                     p \in {PUD_OFF, PUD_UP}, i \in {None, Some(1)}}
ProbeCallbacks == {None, Some("cb1"), Some("notcallable")}

\* setup's check of its arguments, from the claim's words: an input takes no
\* initial value, an output no pull
SetupArgsValid(d, p, i) ==
  \/ d = DIR_OUT /\ p = PUD_OFF
  \/ d = DIR_IN /\ i = None /\ p \in {PUD_OFF, PUD_UP, PUD_DOWN}

\* C5 as stated (it fails): _to_gpio is as described and, after cleanup() of
\* everything, every channel-keyed call fails with ModeNotSet.
C5_Original ==
  /\ C5_ToLine
  /\ AfterFreeAll =>
       /\ \A a \in ProbeSetups :
            setup(Cur, a[1], a[2], a[3], a[4], 0).err = "ModeNotSet"
       /\ \A cl \in ChanLists, vl \in ValueLists :
            output(Cur, cl, vl).err = "ModeNotSet"
       /\ \A c \in Channels : input(Cur, c).err = "ModeNotSet"
       /\ \A c \in Channels, cb \in ProbeCallbacks :
            add_event_detect(Cur, c, RISING, cb, None, TRUE).err = "ModeNotSet"
       /\ \A c \in Channels, cb \in {"cb1", "notcallable"} :
            add_event_callback(Cur, c, cb).err = "ModeNotSet"

\* C5 (amended): _to_gpio is as described.  After cleanup() of everything,
\* and whenever no mode is set, input, wait_for_edge, remove_event_detect and
\* PWM fail with ModeNotSet; setup and output do so when they name a channel
\* and, for setup, the arguments pass the check that comes first (they fail
\* with InvalidArgument otherwise); with no channel setup succeeds and output
\* succeeds or fails with CountMismatch; add_event_detect and
\* add_event_callback fail with ModeNotSet unless the callback is no
\* callable, which is a TypeError.
C5_ModeNotSet ==
  /\ C5_ToLine
  /\ _mode = UNKNOWN =>
       /\ \A a \in ProbeSetups :
            setup(Cur, a[1], a[2], a[3], a[4], 0).err =
              (IF ~SetupArgsValid(a[2], a[3], a[4]) THEN "InvalidArgument"
               ELSE IF a[1] = <<>> THEN "ok" ELSE "ModeNotSet")
       /\ \A cl \in ChanLists, vl \in ValueLists :
            output(Cur, cl, vl).err =
              (IF cl # <<>> THEN "ModeNotSet"
               ELSE IF vl = <<>> THEN "ok" ELSE "CountMismatch")
       /\ \A c \in Channels :
            /\ input(Cur, c).err = "ModeNotSet"
            /\ remove_event_detect(Cur, c).err = "ModeNotSet"
            /\ \A f \in {0, 100} : PWM_init(Cur, c, f).err = "ModeNotSet"
            /\ \A e \in {RISING, 0}, b \in {None, Some(0)}, t \in {None, Some(0)} :
                 wait_for_edge(Cur, c, e, b, t, TRUE).err = "ModeNotSet"
            /\ \A cb \in ProbeCallbacks :
                 add_event_detect(Cur, c, RISING, cb, None, TRUE).err =
                   (IF cb = Some("notcallable") THEN "TypeError" ELSE "ModeNotSet")
            /\ \A cb \in {"cb1", "notcallable"} :
                 add_event_callback(Cur, c, cb).err =
                   (IF cb = "notcallable" THEN "TypeError" ELSE "ModeNotSet")
  /\ (last.op \in {"setup", "output", "input"} /\ last.pre.mode = UNKNOWN
        /\ last.err # "ModeNotSet")
       => (last.args[1] = <<>> \/ last.err = "InvalidArgument")

\* a line was to be claimed after cleanup() had unset the mode
C5_Witness ==
  /\ last.op = "setup" /\ last.pre.mode = UNKNOWN /\ last.err = "ModeNotSet"
  /\ last.args[1] = <<7, 4>> /\ \E g \in Lines : gp[g].level = 1

\* the lines a call was given, as the mode it found translates them
LinesOf(call) == _gpio_list(call.pre.mode, call.args[1])

C7_OutputLengths ==
  (last.op = "output" /\ LinesOf(last).err = "ok") =>
    LET gpios == LinesOf(last).val
        values == last.args[2]
        n == Len(gpios)
        k == Len(values)
    IN IF n = k \/ (n > 1 /\ k = 1)
         THEN /\ last.err \in {"ok", "NotOutput"}
              /\ last.err = "ok" =>
                   \A i \in 1..n :
                     (\A j \in (i + 1)..n : gpios[j] # gpios[i])
                       => gp[gpios[i]].level = (IF k = n THEN values[i] ELSE values[1])
         ELSE /\ last.err = "CountMismatch"
              /\ \A g \in Lines : gp[g].level = last.pre.level[g]

\* one value was written to two lines that were low
C7_Witness ==
  /\ last.op = "output" /\ last.args = << <<7, 4>>, <<1>> >> /\ last.err = "ok"
  /\ last.pre.level[4] = 0 /\ last.pre.level[7] = 0
  /\ gp[4].level = 1 /\ gp[7].level = 1

\* the line has lgpio's claim bit for an input, an output or an alert line
ClaimBit(g) == gp[g].lg \in {_LG_INPUT, _LG_OUTPUT, _LG_ALERT}

\* C17: with a mode set, input() of a channel that names a line returns the
\* line's level, changing nothing, exactly when the line is claimed by this
\* process, and fails with NotClaimed otherwise: so for a line never
\* claimed and for the lines cleanup(channels) has just freed.  The level of
\* an output is the one setup claimed it at until output() writes it, and
\* then the value written: nothing else changes it.
C17_Read ==
  /\ [](\A c \in Channels :
          LET g == _to_gpio(_mode, c)
          IN g.err = "ok" =>
               input(Cur, c) = (IF ClaimBit(g.val)
                                  THEN Return(Cur, gp[g.val].level)
                                  ELSE Fail(Cur, "NotClaimed")))
  /\ []((last.op = "input" /\ _to_gpio(last.pre.mode, last.args[1]).err = "ok") =>
          LET g == _to_gpio(last.pre.mode, last.args[1]).val
          IN IF ClaimBit(g)
               THEN last.err = "ok" /\ last.ret = Some(gp[g].level)
               ELSE last.err = "NotClaimed")
  /\ []((last.op = "cleanup" /\ last.args[1] # None /\ last.err = "ok"
           /\ last.pre.chip # None) =>
          \A i \in 1..Len(last.args[1][1]) :
            input(Cur, last.args[1][1][i]).err = "NotClaimed")
  /\ []((last.op = "setup" /\ last.err = "ok" /\ last.args[2] = DIR_OUT
           /\ last.args[4] # None) =>
          \A i \in 1..Len(last.args[1]) :
            input(Cur, last.args[1][i]).ret = last.args[4])
  /\ [][\A g \in Lines :
          (gp[g].lg = _LG_OUTPUT /\ gp'[g].lg = _LG_OUTPUT
             /\ gp'[g].level # gp[g].level)
            => (last'.op \in {"output", "setup"} /\ last'.err \in {"ok", "NotOutput"})]_vars

\* an output that was written high was read
C17_Witness ==
  /\ last.op = "input" /\ last.args = <<7>> /\ _mode = BCM
  /\ gp[7].lg = _LG_OUTPUT /\ last.ret = Some(1)

\* the lines of an output call, the value each was given, and the position
\* of the first line that is not this process's output (0 if all are);
\* output changes no line's claim, so the claims are those the call found
Written(call) ==
  LET gpios == LinesOf(call).val
      values == call.args[2]
  IN [gpios |-> gpios,
      value |-> [i \in 1..Len(gpios) |->
                   IF Len(values) = Len(gpios) THEN values[i] ELSE values[1]],
      K |-> IF \E i \in 1..Len(gpios) : gp[gpios[i]].lg # _LG_OUTPUT
              THEN CHOOSE i \in 1..Len(gpios) :
                     /\ gp[gpios[i]].lg # _LG_OUTPUT
                     /\ \A j \in 1..(i - 1) : gp[gpios[j]].lg = _LG_OUTPUT
              ELSE 0]

\* C25: output to several lines, with as many values or with one, fails
\* with NotOutput exactly when one of the lines is not claimed as an output
\* by this process.  The lines before the first such line K have the values
\* the call gave them (the last of them, for a line listed twice); line K
\* and every line that is not listed before it have the level they had.
\* No line's claim is changed by the call.
C25_BatchedWrite ==
  /\ []((last.op = "output" /\ LinesOf(last).err = "ok"
           /\ last.err \in {"ok", "NotOutput"}) =>
          LET w == Written(last)
          IN /\ last.err = "NotOutput" <=> w.K # 0
             /\ w.K # 0 =>
                  \A g \in Lines :
                    LET before == {i \in 1..(w.K - 1) : w.gpios[i] = g}
                    IN IF before = {}
                         THEN gp[g].level = last.pre.level[g]
                         ELSE gp[g].level =
                                w.value[CHOOSE i \in before :
                                          \A j \in before : j <= i])
  /\ [][last'.op = "output" =>
          \A g \in Lines : gp'[g].lg = gp[g].lg /\ gp'[g].pull = gp[g].pull]_vars

\* a batch was refused at its second line, an input; the first line, which
\* was low, keeps the value written and the second its level
C25_Witness ==
  /\ last.op = "output" /\ last.args = << <<7, 4>>, <<1, 0>> >>
  /\ last.err = "NotOutput" /\ _mode = BCM
  /\ last.pre.level[7] = 0 /\ gp[7].level = 1
  /\ gp[4].lg = _LG_INPUT /\ gp[4].level = 1 /\ last.pre.level[4] = 1

\* ------------------------------------------------------------------------
\* WatchSpec: edge detection on one line, in one numbering mode
\* ------------------------------------------------------------------------
\* watches: pairs <<edge, bouncetime>>; oks: the outcomes of
\* lgpio.gpio_claim_alert that are tried
AddEventDetect(channels, watches, callbacks, oks) ==
  \E c \in channels, w \in watches, cb \in callbacks, claimOk \in oks :
    Call_("add_event_detect", <<c, w[1], cb, w[2], claimOk>>,
          add_event_detect(Cur, c, w[1], cb, w[2], claimOk))

AddEventCallback(channels, callbacks) ==
  \E c \in channels, cb \in callbacks :
    Call_("add_event_callback", <<c, cb>>, add_event_callback(Cur, c, cb))

RemoveEventDetect(channels) ==
  \E c \in channels :
    Call_("remove_event_detect", <<c>>, remove_event_detect(Cur, c))

EventDetected(channels) ==
  \E c \in channels : Call_("event_detected", <<c>>, event_detected(Cur, c))

\* wait_for_edge is called; unless it raises, the caller is blocked
WaitForEdge(channels, watches, timeouts, oks) ==
  \E c \in channels, w \in watches, t \in timeouts, claimOk \in oks :
    Call_("wait_for_edge", <<c, w[1], w[2], t, claimOk>>,
          wait_for_edge(Cur, c, w[1], w[2], t, claimOk))

\* (mutant) evt.wait takes no notice of its timeout
WaitOver_EventOnly(w) == w.evt

\* evt.wait(timeout) is over once the Event is set or, if a timeout was
\* given, once it has elapsed
WaitOver(w) == w.evt \/ w.timeout # None

\* wait_for_edge returns
WaitReturn ==
  /\ waiter.pc = "blocked"
  /\ WaitOver(waiter)
  /\ \E o \in {wait_return(Cur)} :
        /\ Becomes(o.s)
        /\ last' = [op |-> "wait_return",
                    args |-> <<waiter.channel, waiter.unset, waiter.evt>>,
                    err |-> o.err, ret |-> o.ret, warned |-> FALSE,
                    pre |-> Snap(Cur)]

WatchChannels == {7}
Watches == {<<RISING, None>>, <<FALLING, None>>, <<RISING, Some(5)>>}
WatchCallbacks == {None, Some("cb1")}
WatchTimeouts == {None, Some(50)}

WatchSetmode == Setmode({BCM})
WatchSetup ==
  Setup({<<<<7>>, DIR_IN, PUD_OFF, None>>, <<<<7>>, DIR_OUT, PUD_OFF, Some(0)>>},
        {0})
WatchCleanup == Cleanup({None, Some(<<7>>)})
WatchAddEventDetect ==
  AddEventDetect(WatchChannels, Watches, WatchCallbacks, {TRUE})
WatchAddEventCallback == AddEventCallback(WatchChannels, {"cb1"})
WatchRemoveEventDetect == RemoveEventDetect(WatchChannels)
WatchEventDetected == EventDetected(WatchChannels)
WatchWaitForEdge ==
  WaitForEdge(WatchChannels, Watches, WatchTimeouts, {TRUE})
WatchLineChange == LineChange({7})

WatchNext ==
  \/ WatchSetmode
  \/ WatchSetup
  \/ WatchCleanup
  \/ WatchAddEventDetect
  \/ WatchAddEventCallback
  \/ WatchRemoveEventDetect
  \/ WatchEventDetected
  \/ WatchWaitForEdge
  \/ WaitReturn
  \/ WatchLineChange

\* Warnings matter to no handler of edge detection.
WatchInit == Init /\ _warnings = FALSE

WatchSpec == WatchInit /\ [][WatchNext]_vars

\* evt.wait(timeout) with a timeout returns when the timeout has elapsed:
\* a wait that is over is not blocked for ever
WatchFairSpec == WatchSpec /\ WF_vars(WaitReturn)

\* ------------------------------------------------------------------------
\* Claims about shared and conflicting watches (checked under WatchSpec)
\* ------------------------------------------------------------------------
\* the line of WatchSpec has an _Alert in the registry and the caller is free
\* to make a call
Watched == _mode = BCM /\ waiter.pc = "idle" /\ _alerts[7] # None

\* the kernel has the line claimed for alerts by this process
AlertClaimed == BitAnd(gpio_get_mode(Cur, 7), _LG_ALERT) # 0

\* C8 as stated (it fails): on a line that has an _Alert, and that the kernel
\* has claimed for alerts, add_event_detect with the edge and the bouncetime
\* the _Alert was created with succeeds; the _Alert stays the line's only one,
\* with its callbacks kept and the new callback appended, and the kernel's
\* claim of the line is not made again.
C8_Original ==
  (Watched /\ AlertClaimed) =>
    \A cb \in WatchCallbacks :
      LET a == _alerts[7][1]
          o == add_event_detect(Cur, 7, a.edge, cb, a.bouncetime, TRUE)
      IN /\ o.err = "ok"
         /\ o.s.alerts[7] =
              Some([a EXCEPT !.callbacks =
                               IF cb = None THEN @ ELSE Append(@, cb[1])])
         /\ o.s.gp = gp
         /\ o.s.leaked = leaked

\* C9 as stated (it fails): on a line that has an _Alert, add_event_detect
\* and wait_for_edge with another edge or another bouncetime fail with
\* ConflictingWatch and change nothing.
C9_Original ==
  Watched =>
    \A w \in Watches :
      LET a == _alerts[7][1]
      IN (w[1] # a.edge \/ w[2] # a.bouncetime) =>
           /\ \A cb \in WatchCallbacks :
                add_event_detect(Cur, 7, w[1], cb, w[2], TRUE) =
                  Fail(Cur, "ConflictingWatch")
           /\ \A t \in WatchTimeouts :
                wait_for_edge(Cur, 7, w[1], w[2], t, TRUE) =
                  Fail(Cur, "ConflictingWatch")

\* what wait_for_edge leaves when its wait is over: without an edge, and
\* with an edge of the line reported while the caller was blocked
WaitOutcomes(o) ==
  {wait_return(o.s), wait_return(Deliver(o.s, 7))}

\* C11 as stated (it fails): when wait_for_edge returns, a line that had no
\* _Alert when the call began has none again, and a line that had one still
\* has one, with the edge and the bouncetime it had.
C11_Original ==
  (_mode = BCM /\ waiter.pc = "idle") =>
    \A w \in Watches, t \in WatchTimeouts :
      LET o == wait_for_edge(Cur, 7, w[1], w[2], t, TRUE)
      IN o.err = "blocked" =>
           \A r \in WaitOutcomes(o) :
             IF _alerts[7] = None
               THEN r.s.alerts[7] = None
               ELSE /\ r.s.alerts[7] # None
                    /\ r.s.alerts[7][1].edge = _alerts[7][1].edge
                    /\ r.s.alerts[7][1].bouncetime = _alerts[7][1].bouncetime

\* C12 as stated (it fails): on a line that has an _Alert, and that the
\* kernel has claimed for alerts, wait_for_edge with the edge and the
\* bouncetime the _Alert was created with does not raise: the caller blocks
\* on that _Alert, whose callbacks are kept, whether it had any or not.
C12_Original ==
  (Watched /\ AlertClaimed) =>
    \A t \in WatchTimeouts :
      LET a == _alerts[7][1]
          o == wait_for_edge(Cur, 7, a.edge, a.bouncetime, t, TRUE)
      IN /\ o.err = "blocked"
         /\ ~o.s.waiter.unset
         /\ o.s.alerts[7] =
              Some([a EXCEPT !.callbacks = Append(@, "notify")])

\* the lgpio callbacks of a line that were registered by an _Alert and
\* not cancelled: the one of the registry's _Alert and those left behind
Registrations(g) == (IF _alerts[g] = None THEN 0 ELSE 1) + Len(leaked[g])

\* C20 as stated (it fails): no line has more than one _Alert whose lgpio
\* callback is registered and not cancelled.
C20_Original == \A g \in Lines : Registrations(g) <= 1

\* the state with the kernel API that reports the edge flags (TRUE) or the
\* one that does not (FALSE), all else equal
WithApi(v2) == [Cur EXCEPT !.v2 = v2]

\* C29 as stated (it fails): for a line that has an _Alert and that the
\* kernel has claimed for alerts, the edge the _Alert reports is equal to
\* RISING, FALLING or BOTH exactly when it was created with that edge,
\* whether the edge is read back from the kernel or taken from the stored
\* value; and add_event_detect and wait_for_edge come to the same outcome
\* with either kernel API.
C29_Original ==
  (Watched /\ AlertClaimed) =>
    LET a == _alerts[7][1]
    IN /\ \A e \in {RISING, FALLING, BOTH}, v2 \in BOOLEAN :
            (AlertEdge(WithApi(v2), 7, a) = e) <=> (a.edge = e)
       /\ \A w \in Watches :
            /\ \A cb \in WatchCallbacks :
                 add_event_detect(WithApi(TRUE), 7, w[1], cb, w[2], TRUE).err
                   = add_event_detect(WithApi(FALSE), 7, w[1], cb, w[2], TRUE).err
            /\ \A t \in WatchTimeouts :
                 wait_for_edge(WithApi(TRUE), 7, w[1], w[2], t, TRUE).err
                   = wait_for_edge(WithApi(FALSE), 7, w[1], w[2], t, TRUE).err

\* ------------------------------------------------------------------------
\* WaitSpec: wait_for_edge on one line, with and without a watch of the
\* line set up before
\* ------------------------------------------------------------------------
WaitWatches == {<<RISING, None>>, <<FALLING, None>>}

WaitSetmode == Setmode({BCM})
WaitSetup == Setup({<<<<7>>, DIR_IN, PUD_OFF, None>>}, {0})
WaitAddEventDetect == AddEventDetect(WatchChannels, WaitWatches, {None}, {TRUE})
WaitRemoveEventDetect == RemoveEventDetect(WatchChannels)
WaitWaitForEdge ==
  WaitForEdge(WatchChannels, WaitWatches, WatchTimeouts, {TRUE})
WaitLineChange == LineChange({7})

WaitNext ==
  \/ WaitSetmode
  \/ WaitSetup
  \/ WaitAddEventDetect
  \/ WaitRemoveEventDetect
  \/ WaitWaitForEdge
  \/ WaitReturn
  \/ WaitLineChange

WaitSpec == WatchInit /\ [][WaitNext]_vars

\* evt.wait(timeout) returns once the Event is set and, with a timeout,
\* once the timeout has elapsed: a wait that is over does not stay blocked
WaitFairSpec == WaitSpec /\ WF_vars(WaitReturn)

\* the Event of the call in progress is set by this step
EventSet == ~waiter.evt /\ waiter'.evt

\* the step is the kernel's report of an edge of the line waited on, to a
\* caller that is blocked in wait_for_edge
EdgeDelivered ==
  /\ waiter.pc = "blocked"
  /\ last'.op = "line_change" /\ last'.args = <<waiter.gpio>>
  /\ gp'[waiter.gpio].level # gp[waiter.gpio].level
  /\ Reports(gp'[waiter.gpio], gp'[waiter.gpio].level)

\* C10: a wait_for_edge with a timeout that has blocked returns; a
\* wait_for_edge that returns gives the channel if its Event was set and
\* None if it was not, and the Event is set only by an edge of the line
\* that the kernel reports while the call is blocked.
C10_WaitReturns ==
  /\ (waiter.pc = "blocked" /\ waiter.timeout # None) ~> (waiter.pc = "idle")
  /\ [](last.op = "wait_return" =>
          /\ last.err = "ok"
          /\ last.ret = (IF last.args[3] THEN Some(last.args[1]) ELSE None)
          /\ waiter = IdleWaiter)
  /\ [][EventSet => EdgeDelivered]_vars

\* a wait_for_edge with a timeout has returned None, no edge having come
C10_Witness ==
  /\ last.op = "wait_return" /\ last.ret = None /\ ~last.args[3]
  /\ waiter.pc = "idle"

\* C28 as stated (it fails): when a wait_for_edge that was accepted on a
\* line with an _Alert returns, with or without an edge, the _Alert's
\* callbacks are those it had before the call, and wait_for_edge with the
\* same arguments is accepted again.
C28_Original ==
  (_mode = BCM /\ waiter.pc = "idle" /\ _alerts[7] # None) =>
    \A t \in WatchTimeouts :
      LET a == _alerts[7][1]
          o == wait_for_edge(Cur, 7, a.edge, a.bouncetime, t, TRUE)
      IN (o.err = "blocked" /\ ~o.s.waiter.unset) =>
           \A r \in WaitOutcomes(o) :
             /\ r.s.alerts[7] # None
             /\ r.s.alerts[7][1].callbacks = a.callbacks
             /\ wait_for_edge(r.s, 7, a.edge, a.bouncetime, t, TRUE).err
                  = "blocked"

\* ------------------------------------------------------------------------
\* PwmSpec: PWM objects on output lines
\* ------------------------------------------------------------------------
\* what a call on a PWM object found
PwmSnap(S) ==
  [mode |-> S.mode, chip |-> S.chip, handles |-> S.handles,
   level |-> [g \in Lines |-> S.gp[g].level],
   lg |-> [g \in Lines |-> S.gp[g].lg],
   pwms |-> S.pwms]

PwmCall_(op, args, o) ==
  /\ waiter.pc = "idle"
  /\ \E r \in {o} :
       /\ Becomes(r.s)
       /\ last' = [op |-> op, args |-> args, err |-> r.err, ret |-> r.ret,
                   warned |-> r.warned, pre |-> PwmSnap(Cur)]

\* PWM(channel, frequency)
PwmCreate(channels, frequencies) ==
  \E c \in channels, f \in frequencies :
    PwmCall_("PWM", <<c, f>>, PWM_init(Cur, c, f))

\* a method of the PWM object of a line is called
PwmStart(dcs) ==
  \E g \in Lines, dc \in dcs :
    _pwms[g] # None /\ PwmCall_("start", <<g, dc>>, PWM_start(Cur, g, dc))

PwmStop ==
  \E g \in Lines : _pwms[g] # None /\ PwmCall_("stop", <<g>>, PWM_stop(Cur, g))

PwmChangeFrequency(frequencies) ==
  \E g \in Lines, f \in frequencies :
    /\ _pwms[g] # None
    /\ PwmCall_("ChangeFrequency", <<g, f>>, PWM_ChangeFrequency(Cur, g, f))

PwmChangeDutyCycle(dcs) ==
  \E g \in Lines, dc \in dcs :
    /\ _pwms[g] # None
    /\ PwmCall_("ChangeDutyCycle", <<g, dc>>, PWM_ChangeDutyCycle(Cur, g, dc))

\* the caller drops its reference to the PWM object of a line
PwmDrop ==
  \E g \in Lines : _pwms[g] # None /\ PwmCall_("del", <<g>>, PWM_del(Cur, g))

PwmFrequencies == {100, 200, 0}
PwmDutyCycles == {50, 75, 101}

PwmSetmode == Setmode({BCM})
PwmSetup ==
  Setup({<<<<7>>, DIR_OUT, PUD_OFF, Some(1)>>, <<<<7>>, DIR_IN, PUD_OFF, None>>},
        {0})
PwmCleanup == Cleanup({None, Some(<<7>>)})
PwmOutput == Output({<<7>>}, {<<1>>})
PwmPwmCreate == PwmCreate({7}, PwmFrequencies)
PwmPwmStart == PwmStart(PwmDutyCycles)
PwmPwmChangeFrequency == PwmChangeFrequency(PwmFrequencies)
PwmPwmChangeDutyCycle == PwmChangeDutyCycle(PwmDutyCycles)

PwmNext ==
  \/ PwmSetmode
  \/ PwmSetup
  \/ PwmCleanup
  \/ PwmOutput
  \/ PwmPwmCreate
  \/ PwmPwmStart
  \/ PwmPwmChangeFrequency
  \/ PwmPwmChangeDutyCycle
  \/ PwmStop
  \/ PwmDrop

\* Neither warnings nor the kernel's API version matter to a PWM object.
PwmInit == Init /\ _warnings = FALSE /\ apiV2 = FALSE

PwmSpec == PwmInit /\ [][PwmNext]_vars

C19_Original ==
  last.op = "stop" =>
    LET g == last.args[1]
    IN /\ last.err = "ok"
       /\ ~_pwms[g][1].running
       /\ PWM_stop(Cur, g) = Done(Cur)

\* C26 as stated (it fails): every PWM object that exists has a frequency
\* above 0 and, once a duty cycle was set, a duty cycle within 0..100; so a
\* call that fails with InvalidArgument has left the values that were
\* stored.
C26_Original ==
  \A g \in Lines :
    _pwms[g] # None =>
      /\ _pwms[g][1].frequency > 0
      /\ _pwms[g][1].dc # None =>
           (0 <= _pwms[g][1].dc[1] /\ _pwms[g][1].dc[1] <= 100)
      /\ (last.op \in {"start", "ChangeDutyCycle", "ChangeFrequency"}
            /\ last.args[1] = g /\ last.err = "InvalidArgument") =>
           /\ _pwms[g][1].frequency = last.pre.pwms[g][1].frequency
           /\ _pwms[g][1].dc = last.pre.pwms[g][1].dc

\* C31 as stated (it fails): for a PWM object that is running and whose
\* line has pulses, the frequency and the duty cycle of the pulses are the
\* ones the object has stored; a ChangeFrequency or ChangeDutyCycle of an
\* object that is not running changes nothing of the line.
C31_Original ==
  \A g \in Lines :
    _pwms[g] # None =>
      /\ (_pwms[g][1].running /\ gp[g].tx # None) =>
           gp[g].tx = Some(<<_pwms[g][1].frequency, _pwms[g][1].dc[1]>>)
      /\ ~_pwms[g][1].running =>
           /\ \A f \in PwmFrequencies : PWM_ChangeFrequency(Cur, g, f).s.gp = gp
           /\ \A dc \in PwmDutyCycles : PWM_ChangeDutyCycle(Cur, g, dc).s.gp = gp

\* C33 as stated (it fails): a PWM(channel, frequency) that raises because
\* the line has a PWM object, is no output or the frequency is not above 0
\* changes nothing: the pulses and the level of the line, the claim of the
\* line and the registered objects with their running flags are as before.
C33_Original ==
  (_mode = BCM /\ waiter.pc = "idle") =>
    \A channel \in Lines : \A frequency \in PwmFrequencies :
      LET o == PWM_init(Cur, channel, frequency)
      IN o.err \in {"AlreadyExists", "NotOutput", "InvalidArgument"} =>
           /\ o.s.gp = gp
           /\ o.s.pwms = _pwms

\* ------------------------------------------------------------------------
\* PollSpec: the detected flag of a watched line
\* ------------------------------------------------------------------------
\* lgpio reports a watchdog timeout of a line that has an _Alert
WatchdogReport(lines) ==
  \E g \in lines :
    /\ _alerts[g] # None
    /\ \E S \in {watchdog(Cur, g)} : Becomes(S)
    /\ last' = [NoCall EXCEPT !.op = "watchdog", !.args = <<g>>]

PollSetmode == Setmode({BCM})
PollSetup ==
  Setup({<<<<7>>, DIR_IN, PUD_OFF, None>>, <<<<7>>, DIR_OUT, PUD_OFF, Some(0)>>},
        {0})
PollCleanup == Cleanup({None})
PollAddEventDetect ==
  AddEventDetect(WatchChannels, WaitWatches, {None, Some("cb1")}, {TRUE})
PollRemoveEventDetect == RemoveEventDetect(WatchChannels)
PollEventDetected == EventDetected({7, 54})
PollLineChange == LineChange({7})
PollWatchdogReport == WatchdogReport({7})

PollNext ==
  \/ PollSetmode
  \/ PollSetup
  \/ PollCleanup
  \/ PollAddEventDetect
  \/ PollRemoveEventDetect
  \/ PollEventDetected
  \/ PollLineChange
  \/ PollWatchdogReport

PollSpec == WatchInit /\ [][PollNext]_vars

\* ------------------------------------------------------------------------
\* Claims about the detected flag (checked under PollSpec)
\* ------------------------------------------------------------------------
\* the line of PollSpec has an _Alert whose flag is set
Flagged(alerts) == alerts[7] # None /\ alerts[7][1].detected

\* the step is the kernel's report of an edge of the line
EdgeReported ==
  /\ last'.op = "line_change" /\ last'.args = <<7>>
  /\ gp'[7].level # gp[7].level
  /\ Reports(gp'[7], gp'[7].level)

\* C14: event_detected of a line that has an _Alert returns the flag and
\* clears it; an edge the kernel reports for the line sets the flag; the
\* flag is set by nothing else (a watchdog report leaves it alone); and a
\* flag that is set stays set until event_detected reads it or the line's
\* _Alert is removed or replaced.  So the poll after an edge is true, the
\* polls after that are false until the next edge, and no more polls are
\* true than edges were reported.
C14_PollOncePerEdge ==
  /\ []((_mode = BCM /\ waiter.pc = "idle" /\ _alerts[7] # None) =>
          LET o == event_detected(Cur, 7)
          IN /\ o.err = "ok"
             /\ o.ret = Some(_alerts[7][1].detected)
             /\ o.s = [Cur EXCEPT !.alerts[7] =
                                    Some([@[1] EXCEPT !.detected = FALSE])])
  /\ []((last.op = "event_detected" /\ last.err = "ok") => ~Flagged(_alerts))
  /\ [][(EdgeReported /\ _alerts[7] # None) => Flagged(_alerts')]_vars
  /\ [][(~Flagged(_alerts) /\ Flagged(_alerts')) => EdgeReported]_vars
  /\ [][(Flagged(_alerts) /\ ~Flagged(_alerts')) =>
          \/ last'.op = "event_detected"
          \/ _alerts'[7] = None
          \/ last'.op = "add_event_detect" /\ gp[7].lg # _LG_ALERT]_vars

\* a poll has returned True and cleared the flag
C14_Witness ==
  /\ last.op = "event_detected" /\ last.ret = Some(TRUE)
  /\ _alerts[7] # None /\ ~_alerts[7][1].detected

\* C15 as stated (it fails): event_detected of a line that has no _Alert
\* returns False and raises nothing, in every state.
C15_Original ==
  \A c \in {7} :
    (\A g \in Lines : _to_gpio(_mode, c) = Ok(g) => _alerts[g] = None) =>
      event_detected(Cur, c) = Return(Cur, FALSE)

\* C15 (amended): with a numbering mode set, event_detected of a channel
\* whose line has no _Alert returns False, raises nothing and changes
\* nothing; with no mode set it raises ModeNotSet, and for a channel that
\* names no line InvalidChannel.
C15_PollNoAlert ==
  /\ \A c \in {7, 54} :
       LET g == _to_gpio(_mode, c)
       IN IF g.err # "ok"
            THEN /\ event_detected(Cur, c) = Fail(Cur, g.err)
                 /\ g.err = (IF _mode = UNKNOWN THEN "ModeNotSet"
                             ELSE "InvalidChannel")
            ELSE _alerts[g.val] = None =>
                   event_detected(Cur, c) = Return(Cur, FALSE)
  /\ (last.op = "event_detected" /\ last.pre.mode # UNKNOWN
        /\ last.args = <<7>> /\ _alerts[7] = None)
       => (last.err = "ok" /\ last.ret = Some(FALSE))

\* a line without an _Alert was polled in BCM mode
C15_Witness ==
  /\ last.op = "event_detected" /\ last.args = <<7>> /\ last.pre.mode = BCM
  /\ _alerts[7] = None /\ last.ret = Some(FALSE) /\ gp[7].lg = _LG_INPUT

\* the calls of the caller's own callbacks among some calls
RECURSIVE UserCalls(_)
UserCalls(calls) ==
  IF calls = <<>> THEN <<>>
  ELSE (IF calls[1][1] \in {"notify", "stale"} THEN <<>> ELSE <<calls[1]>>)
         \o UserCalls(Tail(calls))

\* C16 as stated (it fails): for an edge report of a line that has an _Alert
\* and that the kernel has claimed for alerts, each callback registered
\* with the _Alert is called once, in the order of registration, with the
\* line's channel in the mode that is set, and no other call of a callback
\* of the caller is made.
C16_Original ==
  (Watched /\ AlertClaimed) =>
    UserCalls(Invoked(Cur, 7)) =
      UserCalls([i \in 1..Len(_alerts[7][1].callbacks) |->
                   <<_alerts[7][1].callbacks[i], Ok(7)>>])

\* ------------------------------------------------------------------------
\* WarnSpec: setup of a line that has a pull-up resistor fitted
\* ------------------------------------------------------------------------
Setwarnings(values) ==
  \E v \in values : Call_("setwarnings", <<v>>, setwarnings(Cur, v))

WarnSetups ==
  {<<cl, DIR_IN, p, None>> : cl \in {<<2>>, <<7>>, <<7, 2>>},
                             p \in {PUD_OFF, PUD_UP, PUD_DOWN}}
  \cup {<<cl, DIR_OUT, PUD_OFF, i>> : cl \in {<<2>>, <<7>>}, i \in {None, Some(1)}}

WarnSetmode == Setmode({BCM})
WarnSetwarnings == Setwarnings(BOOLEAN)
WarnSetup == Setup(WarnSetups, {0})
WarnCleanup == Cleanup({None})
WarnInput == Input({2, 7})

WarnNext ==
  \/ WarnSetmode
  \/ WarnSetwarnings
  \/ WarnSetup
  \/ WarnCleanup
  \/ WarnInput

\* _warnings is True when the module is loaded
WarnInit == Init /\ _warnings = TRUE /\ apiV2 = FALSE

WarnSpec == WarnInit /\ [][WarnNext]_vars

\* C18 as stated (it fails): with warnings enabled, setup of line 2 with a
\* valid direction and pull succeeds (the lgpio calls succeeding): the line
\* is claimed with the direction and the pull asked for, and the warning is
\* emitted exactly for the pulls PUD_UP and PUD_DOWN.
C18_Original ==
  (last.op = "setup" /\ _warnings /\ last.pre.mode = BCM
     /\ SetupArgsValid(last.args[2], last.args[3], last.args[4])
     /\ \E i \in 1..Len(last.args[1]) : last.args[1][i] = 2) =>
    /\ last.err = "ok"
    /\ gp[2].lg = (IF last.args[2] = DIR_IN THEN _LG_INPUT ELSE _LG_OUTPUT)
    /\ gp[2].pull = PullFlag(last.args[3])
    /\ last.warned <=> (last.args[3] \in {PUD_UP, PUD_DOWN})

\* ------------------------------------------------------------------------
\* DetectSpec: the registry of _Alert objects of one line, with claims of
\* the line that the kernel refuses
\* ------------------------------------------------------------------------
DetectSetups ==
  {<<<<7>>, DIR_IN, PUD_OFF, None>>, <<<<7>>, DIR_OUT, PUD_OFF, Some(0)>>}

DetectSetmode == Setmode({BCM})
DetectSetup == Setup(DetectSetups, 0..1)
DetectCleanup == Cleanup({None, Some(<<7>>)})
DetectAddEventDetect ==
  AddEventDetect(WatchChannels, WaitWatches, WatchCallbacks, {TRUE})
DetectAddEventCallback == AddEventCallback(WatchChannels, {"cb1", "notcallable"})
DetectRemoveEventDetect == RemoveEventDetect(WatchChannels)
DetectWaitForEdge ==
  WaitForEdge(WatchChannels, {<<RISING, None>>}, {Some(50)}, {TRUE})

DetectNext ==
  \/ DetectSetmode
  \/ DetectSetup
  \/ DetectCleanup
  \/ DetectAddEventDetect
  \/ DetectAddEventCallback
  \/ DetectRemoveEventDetect
  \/ DetectWaitForEdge
  \/ WaitReturn

\* The edge that is read back from the kernel is the subject of WatchSpec;
\* here the kernel's API is the one that does not report it.
DetectInit == Init /\ _warnings = FALSE /\ apiV2 = FALSE

DetectSpec == DetectInit /\ [][DetectNext]_vars

\* ------------------------------------------------------------------------
\* Claims about the registry of _Alert objects (checked under DetectSpec)
\* ------------------------------------------------------------------------
\* the kernel has the line claimed by this process as an input, for alerts
\* or not
InputClaimed(g) == gp[g].lg \in {_LG_INPUT, _LG_ALERT}

\* C21 as stated (it fails): with a mode set, add_event_callback with a
\* callable for a line that has no _Alert fails with NoActiveWatch and
\* creates no _Alert.
C21_Original ==
  (_mode = BCM /\ waiter.pc = "idle" /\ _alerts[7] = None) =>
    add_event_callback(Cur, 7, "cb1") = Fail(Cur, "NoActiveWatch")

\* C21 (amended): add_event_callback with a callable, for a line that this
\* process has claimed as an input, fails with NoActiveWatch and creates no
\* _Alert if the line has no _Alert, and otherwise appends the callable at
\* the end of the _Alert's callbacks and changes nothing else, the _Alert's
\* edge and bouncetime included.  For a line that is not claimed as an input
\* it fails with the error of the input check, whether the line has an
\* _Alert or not, and with an argument that is no callable it fails with
\* TypeError; a call that fails changes nothing.
C21_AddCallback ==
  /\ (_mode = BCM /\ waiter.pc = "idle") =>
       /\ add_event_callback(Cur, 7, "notcallable") = Fail(Cur, "TypeError")
       /\ LET o == add_event_callback(Cur, 7, "cb1")
          IN IF ~InputClaimed(7) THEN o = Fail(Cur, "NotInput")
             ELSE IF _alerts[7] = None THEN o = Fail(Cur, "NoActiveWatch")
             ELSE /\ o.err = "ok"
                  /\ o.s.alerts[7] =
                       Some([_alerts[7][1] EXCEPT
                               !.callbacks = Append(@, "cb1")])
                  /\ o.s = [Cur EXCEPT !.alerts[7] = o.s.alerts[7]]
  /\ (last.op = "add_event_callback" /\ last.err = "NoActiveWatch")
       => (_alerts[7] = None /\ InputClaimed(7))
  /\ (last.op = "add_event_callback" /\ last.err = "ok")
       => (_alerts[7] # None /\ Len(_alerts[7][1].callbacks) >= 1
             /\ _alerts[7][1].callbacks[Len(_alerts[7][1].callbacks)]
                  = last.args[2])

\* a second callback was added to the _Alert of a watched line
C21_Witness ==
  /\ last.op = "add_event_callback" /\ last.err = "ok"
  /\ _alerts[7] # None /\ _alerts[7][1].callbacks = <<"cb1", "cb1">>
  /\ gp[7].lg = _LG_ALERT

\* the watches with valid arguments that differ from an _Alert in the edge
\* or the bouncetime
OtherWatches(alert) ==
  {w \in {<<RISING, None>>, <<FALLING, None>>, <<BOTH, Some(5)>>} :
     w[1] # alert.edge \/ w[2] # alert.bouncetime}

\* C22 as stated (it fails): with a mode set, remove_event_detect raises
\* nothing; for a line without an _Alert it changes nothing; a second call
\* changes nothing more; and after the call for a line that had an _Alert
\* the line has none and no lgpio callback of the line is left registered,
\* add_event_callback fails with NoActiveWatch, and add_event_detect with
\* another edge or bouncetime succeeds.
C22_Original ==
  (_mode = BCM /\ waiter.pc = "idle") =>
    LET o == remove_event_detect(Cur, 7)
    IN /\ o.err = "ok"
       /\ _alerts[7] = None => o.s = Cur
       /\ remove_event_detect(o.s, 7) = o
       /\ o.s.alerts[7] = None
       /\ _alerts[7] # None =>
            /\ o.s.leaked[7] = <<>>
            /\ add_event_callback(o.s, 7, "cb1") = Fail(o.s, "NoActiveWatch")
            /\ \A w \in OtherWatches(_alerts[7][1]), cb \in WatchCallbacks :
                 add_event_detect(o.s, 7, w[1], cb, w[2], TRUE).err = "ok"

\* C27 as stated (it fails): cleanup() of everything, having found the
\* chip open, passes its assertion: it raises nothing and leaves no _Alert
\* in the registry.
C27_Original ==
  (last.op = "cleanup" /\ last.args[1] = None /\ last.pre.chip # None) =>
    /\ last.err = "ok"
    /\ \A g \in Lines : _alerts[g] = None

\* C34 as stated (it fails): in every state a line has an _Alert in the
\* registry only if the kernel has it claimed for alerts, and no lgpio
\* callback of an _Alert that left the registry is still registered; so
\* after setup of a watched line, as an input or as an output, the line has
\* neither.
C34_Original ==
  \A g \in Lines :
    /\ _alerts[g] # None => gp[g].lg = _LG_ALERT
    /\ leaked[g] = <<>>

\* a call that was refused and has changed nothing
Refused(o, S) == o.err \notin {"ok", "blocked"} /\ o.s = S

\* C35: add_event_detect, wait_for_edge and add_event_callback for a line
\* that the kernel has neither as an input nor claimed for alerts (an output,
\* a line that was never claimed or was freed) fail with an error and change
\* nothing: no _Alert is created, no callback is registered and the line's
\* claim is as it was, whatever the edge, the callback and the timeout, and
\* also when the registry still holds an _Alert for the line.  So a call
\* that succeeded or blocked has found the line claimed as an input.
C35_InputRequired ==
  /\ waiter.pc = "idle" =>
       \A g \in {4, 7} :
         ~InputClaimed(g) =>
           /\ \A e \in {RISING, FALLING, BOTH}, b \in {None, Some(5)},
                 claimOk \in BOOLEAN :
                /\ \A cb \in WatchCallbacks :
                     Refused(add_event_detect(Cur, g, e, cb, b, claimOk), Cur)
                /\ \A t \in WatchTimeouts :
                     Refused(wait_for_edge(Cur, g, e, b, t, claimOk), Cur)
           /\ Refused(add_event_callback(Cur, g, "cb1"), Cur)
  /\ (last.op \in {"add_event_detect", "wait_for_edge", "add_event_callback"}
        /\ last.err \in {"ok", "blocked"})
       => InputClaimed(last.args[1])

\* add_event_detect was refused for a line that is an output
C35_Witness ==
  /\ last.op = "add_event_detect" /\ last.args[1] = 7
  /\ last.err = "NotInput"
  /\ gp[7].lg = _LG_OUTPUT /\ _alerts[7] = None /\ leaked[7] = <<>>

\* ------------------------------------------------------------------------
\* FreeSpec: cleanup of some lines while others are claimed and watched
\* ------------------------------------------------------------------------
FreeChanLists == {<<7>>, <<4>>, <<7, 4>>}
FreeSetups ==
  {<<cl, DIR_IN, PUD_OFF, None>> : cl \in FreeChanLists}
  \cup {<<cl, DIR_OUT, PUD_OFF, Some(1)>> : cl \in {<<7>>, <<4>>}}

FreeSetmode == Setmode({BCM})
FreeSetup == Setup(FreeSetups, {0})
FreeCleanup == Cleanup({None} \cup {Some(cl) : cl \in FreeChanLists})
FreeAddEventDetect ==
  AddEventDetect({7, 4}, {<<RISING, None>>}, WatchCallbacks, {TRUE})

FreeNext ==
  \/ FreeSetmode
  \/ FreeSetup
  \/ FreeCleanup
  \/ FreeAddEventDetect

FreeSpec == DetectInit /\ [][FreeNext]_vars

\* the lines of a list of channels in BCM mode
Named(cl) == {cl[i] : i \in 1..Len(cl)}

\* C32 as stated (it fails): cleanup of a list of channels, with the chip
\* open, raises nothing and leaves the mode, the chip handle and the open
\* handles as they were; every line that is not named keeps its claim,
\* pull, level, _Alert and callbacks; every line that is named is left
\* unclaimed, with no _Alert in the registry and with no lgpio callback of
\* an _Alert still registered for it.
C32_Original ==
  (_mode = BCM /\ waiter.pc = "idle") =>
    \A cl \in FreeChanLists :
      LET o == cleanup(Cur, Some(cl))
      IN /\ o.err = "ok"
         /\ o.s.mode = _mode /\ o.s.chip = _chip /\ o.s.handles = handles
         /\ \A g \in Lines \ Named(cl) :
              /\ o.s.gp[g] = gp[g]
              /\ o.s.alerts[g] = _alerts[g]
              /\ o.s.leaked[g] = leaked[g]
         /\ \A g \in Named(cl) :
              /\ o.s.gp[g].lg = 0
              /\ o.s.gp[g].level = gp[g].level
              /\ o.s.alerts[g] = None
              /\ o.s.leaked[g] = <<>>

\* ------------------------------------------------------------------------
\* ArgsSpec: calls with arguments that are not valid, on a line with and
\* without an _Alert
\* ------------------------------------------------------------------------
ArgsWatches ==
  {<<RISING, None>>, <<RISING, Some(-666)>>, <<RISING, Some(0)>>,
   <<RISING, Some(-5)>>, <<0, None>>}
ArgsCallbacks == {None, Some("notcallable")}
ArgsTimeouts == {Some(50), Some(0), Some(-5)}
ArgsSetups ==
  {<<<<7>>, DIR_IN, PUD_OFF, None>>, <<<<7>>, DIR_OUT, PUD_OFF, Some(0)>>,
   <<<<7>>, DIR_IN, PUD_OFF, Some(1)>>, <<<<7, 4>>, DIR_OUT, PUD_UP, None>>,
   <<<<7>>, DIR_IN, 23, None>>, <<<<7>>, 2, PUD_OFF, None>>}

ArgsSetmode == Setmode({BCM})
ArgsSetup == Setup(ArgsSetups, {0})
ArgsCleanup == Cleanup({None})
ArgsAddEventDetect ==
  AddEventDetect(WatchChannels, ArgsWatches, ArgsCallbacks, {TRUE})
ArgsWaitForEdge ==
  WaitForEdge(WatchChannels, ArgsWatches, ArgsTimeouts, {TRUE})

ArgsNext ==
  \/ ArgsSetmode
  \/ ArgsSetup
  \/ ArgsCleanup
  \/ ArgsAddEventDetect
  \/ ArgsWaitForEdge
  \/ WaitReturn

ArgsSpec == DetectInit /\ [][ArgsNext]_vars

\* ------------------------------------------------------------------------
\* Claims about the validation of arguments (checked under ArgsSpec)
\* ------------------------------------------------------------------------
\* the combinations of direction, pull_up_down and initial that setup is to
\* refuse
InvalidSetupArgs ==
  {a \in {DIR_OUT, DIR_IN, 2, -1} \X {PUD_OFF, PUD_UP, PUD_DOWN, 0, 23}
            \X {None, Some(0), Some(1)} :
     ~SetupArgsValid(a[1], a[2], a[3])}

\* C24: setup with an input and an initial value, an input and a pull that
\* is none of PUD_OFF, PUD_UP and PUD_DOWN, an output and a pull other than
\* PUD_OFF, or a direction that is neither, fails with InvalidArgument and
\* changes nothing: no line's claim, direction, pull, level or _Alert, for
\* one line and for several, whether warnings are enabled or not and
\* whatever the kernel would have answered to a claim.
C24_SetupRejects ==
  /\ waiter.pc = "idle" =>
       \A a \in InvalidSetupArgs, cl \in {<<7>>, <<7, 4>>, <<2, 7>>},
          failAt \in 0..1, w \in BOOLEAN :
         LET S == [Cur EXCEPT !.warnings = w]
         IN setup(S, cl, a[1], a[2], a[3], failAt) = Fail(S, "InvalidArgument")
  /\ (last.op = "setup"
        /\ ~SetupArgsValid(last.args[2], last.args[3], last.args[4])) =>
       /\ last.err = "InvalidArgument"
       /\ \A g \in Lines : gp[g].level = last.pre.level[g]

\* an input with an initial value was refused for a watched line
C24_Witness ==
  /\ last.op = "setup" /\ last.err = "InvalidArgument"
  /\ last.args[2] = DIR_IN /\ last.args[4] = Some(1)
  /\ _alerts[7] # None /\ gp[7].lg = _LG_ALERT

\* the edges, bouncetimes and timeouts the calls are tried with, and the
\* ones among them that are to be refused
ProbeEdges == {RISING, FALLING, BOTH, 0, 1, 34}
ProbeBounces == {None, Some(5), Some(-666), Some(0), Some(-5)}
ProbeTimeouts == {None, Some(50), Some(0), Some(-5)}
ValidEdge(e) == e \in {RISING, FALLING, BOTH}
ValidBounce(b) == b = None \/ b = Some(-666) \/ b[1] > 0
ValidTimeout(t) == t = None \/ t[1] > 0

\* C30: add_event_detect with an edge that is none of RISING, FALLING and
\* BOTH, with a bouncetime that is zero or negative and not -666, or with a
\* callback that is no callable, and wait_for_edge with such an edge or
\* bouncetime or with a timeout that is zero or negative, fail and change
\* nothing: the line's _Alert, the registry and the kernel's claim of the
\* line are as they were, whether the line has an _Alert or not and with
\* either kernel API; for a line that is claimed as an input the error is
\* InvalidArgument, or TypeError for the callback.  A bouncetime of -666 is
\* taken for None: the call comes to what it comes to with None, and so
\* shares an _Alert that was made with no bouncetime.
C30_ValidateFirst ==
  /\ waiter.pc = "idle" =>
       \A v2 \in BOOLEAN, claimOk \in BOOLEAN, e \in ProbeEdges,
          b \in ProbeBounces :
         LET S == WithApi(v2)
         IN /\ \A cb \in {None, Some("cb1")} :
                 LET o == add_event_detect(S, 7, e, cb, b, claimOk)
                 IN /\ ~(ValidEdge(e) /\ ValidBounce(b)) =>
                         /\ Refused(o, S)
                         /\ (_mode = BCM /\ InputClaimed(7))
                              => o.err = "InvalidArgument"
                    /\ b = Some(-666) =>
                         o = add_event_detect(S, 7, e, cb, None, claimOk)
            /\ add_event_detect(S, 7, e, Some("notcallable"), b, claimOk)
                 = Fail(S, "TypeError")
            /\ \A t \in ProbeTimeouts :
                 LET o == wait_for_edge(S, 7, e, b, t, claimOk)
                 IN /\ ~(ValidEdge(e) /\ ValidBounce(b) /\ ValidTimeout(t)) =>
                         /\ Refused(o, S)
                         /\ (_mode = BCM /\ InputClaimed(7))
                              => o.err = "InvalidArgument"
                    /\ b = Some(-666) =>
                         o = wait_for_edge(S, 7, e, None, t, claimOk)
  /\ (Watched /\ AlertClaimed /\ _alerts[7][1].bouncetime = None) =>
       add_event_detect(Cur, 7, _alerts[7][1].edge, None, Some(-666), TRUE)
         = Done(Cur)
  /\ (last.op = "add_event_detect"
        /\ ~(ValidEdge(last.args[2]) /\ ValidBounce(last.args[4])
              /\ last.args[3] # Some("notcallable")))
       => last.err \notin {"ok", "blocked"}
  /\ (last.op = "wait_for_edge"
        /\ ~(ValidEdge(last.args[2]) /\ ValidBounce(last.args[3])
              /\ ValidTimeout(last.args[4])))
       => (last.err \notin {"ok", "blocked"} /\ waiter.pc = "idle")

\* a wait_for_edge with a timeout of zero was refused on a watched line
C30_Witness ==
  /\ last.op = "wait_for_edge" /\ last.err = "InvalidArgument"
  /\ last.args[2] = RISING /\ last.args[3] = None /\ last.args[4] = Some(0)
  /\ _alerts[7] # None /\ gp[7].lg = _LG_ALERT /\ waiter.pc = "idle"

\* ------------------------------------------------------------------------
\* BusySpec: low-level calls that the kernel answers with "busy"
\* ------------------------------------------------------------------------
\* The result of one attempt of an lgpio call: "ok", "busy" (lgpio.GPIO_BUSY)
\* or "error" (any other negative result).
LgResults == {"ok", "busy", "error"}

\* _check(result): a negative result is raised as a RuntimeError with
\* lgpio's text for it
_check(result) ==
  IF result = "ok" THEN "ok"
  ELSE IF result = "busy" THEN "DeviceBusy"
  ELSE "LowLevel"

\* _retry's loop from the i-th attempt on; results[i] is what the kernel
\* answers to the i-th attempt
RECURSIVE RetryFrom(_, _, _)
RetryFrom(results, i, _count) ==
  IF i > _count THEN [err |-> "DeviceBusy", attempts |-> _count]
  ELSE IF results[i] # "busy"
    THEN [err |-> _check(results[i]), attempts |-> i]
  ELSE RetryFrom(results, i + 1, _count)

\* _retry(func, *args, _count=3)
_retry(results, _count) == RetryFrom(results, 1, _count)

\* A low-level call as setup, input, output and _set_alert issue it: once,
\* with its result given to _check.  No call of the module goes through
\* _retry.
Issued(results) == [err |-> _check(results[1]), attempts |-> 1]

\* setup of one line whose claim the kernel answers with the results
setup_answered(S, chanlist, direction, pull_up_down, initial, results) ==
  LET r == Issued(results)
      o == setup(S, chanlist, direction, pull_up_down, initial,
                 IF r.err = "ok" THEN 0 ELSE 1)
  IN IF o.err = "LowLevel" THEN [o EXCEPT !.err = r.err] ELSE o

\* input whose gpio_read the kernel answers with the results
input_answered(S, channel, results) ==
  LET r == Issued(results)
      o == input(S, channel)
  IN IF o.err = "ok" /\ r.err # "ok" THEN Fail(S, r.err) ELSE o

\* the answers of the kernel to up to three attempts of a call
ResultSeqs == [1..3 -> LgResults]

BusySetups ==
  {<<<<7>>, DIR_IN, PUD_OFF, None>>, <<<<7>>, DIR_IN, PUD_UP, None>>,
   <<<<7>>, DIR_OUT, PUD_OFF, Some(1)>>, <<<<7>>, DIR_OUT, PUD_OFF, Some(0)>>}

BusySetmode == Setmode({BCM})
BusySetup ==
  \E a \in BusySetups, rs \in ResultSeqs :
    Call_("setup", <<a[1], a[2], a[3], a[4], rs>>,
          setup_answered(Cur, a[1], a[2], a[3], a[4], rs))
BusyInput ==
  \E rs \in ResultSeqs :
    Call_("input", <<7, rs>>, input_answered(Cur, 7, rs))
BusyCleanup == Cleanup({None})

BusyNext ==
  \/ BusySetmode
  \/ BusySetup
  \/ BusyInput
  \/ BusyCleanup

BusySpec == PwmInit /\ [][BusyNext]_vars

\* C23 as stated (it fails): a low-level call of setup or input that the
\* kernel answers with "busy" is issued again, up to 3 attempts in all: the
\* call comes to what the first answer that is not "busy" among the first
\* three gives, and raises DeviceBusy only after three "busy" answers.
C23_Original ==
  /\ (last.op = "setup" /\ last.pre.mode = BCM) =>
       last.err = _retry(last.args[5], 3).err
  /\ (last.op = "input" /\ last.pre.mode = BCM /\ ClaimBit(7)) =>
       last.err = _retry(last.args[2], 3).err

\* ------------------------------------------------------------------------
\* ThreadSpec: the steps of a poll and of a wait, interleaved with lgpio's
\* callback thread and with a second thread of the caller
\* ------------------------------------------------------------------------
\* event_detected up to the test of the flag in _Alert.detected: False is
\* returned for a line without an _Alert and for a flag that is not set;
\* with the flag set the thread goes on to clear it.  waiter.pc = "polling"
\* is the caller's thread between the test and the assignment.
event_detected_test(S, channel) ==
  LET g == _to_gpio(S.mode, channel)
  IN IF g.err # "ok" THEN Fail(S, g.err)
     ELSE IF S.alerts[g.val] = None THEN Return(S, FALSE)
     ELSE IF ~S.alerts[g.val][1].detected THEN Return(S, FALSE)
     ELSE [s |-> [S EXCEPT !.waiter = [IdleWaiter EXCEPT !.pc = "polling",
                                                         !.gpio = g.val,
                                                         !.channel = channel]],
           err |-> "polling", ret |-> None, warned |-> FALSE]

\* _Alert.detected from the assignment on: the flag is cleared, whatever it
\* is by now, and True is returned
detected_clear(S) ==
  Return([S EXCEPT !.alerts[S.waiter.gpio] =
                     Some([@[1] EXCEPT !.detected = FALSE]),
                   !.waiter = IdleWaiter], TRUE)

EventDetectedTest(channels) ==
  \E c \in channels :
    Call_("event_detected_test", <<c>>, event_detected_test(Cur, c))

DetectedClear ==
  /\ waiter.pc = "polling"
  /\ \E o \in {detected_clear(Cur)} :
        /\ Becomes(o.s)
        /\ last' = [op |-> "event_detected", args |-> <<waiter.channel>>,
                    err |-> o.err, ret |-> o.ret, warned |-> FALSE,
                    pre |-> Snap(Cur)]

\* add_event_detect called by another thread while the caller's thread is
\* blocked in wait_for_edge
OtherAddEventDetect(channels, watches, callbacks) ==
  /\ waiter.pc = "blocked"
  /\ \E c \in channels, w \in watches, cb \in callbacks :
       \E o \in {add_event_detect(Cur, c, w[1], cb, w[2], TRUE)} :
         /\ Becomes(o.s)
         /\ last' = [op |-> "other_add_event_detect",
                     args |-> <<c, w[1], cb, w[2], TRUE>>,
                     err |-> o.err, ret |-> o.ret, warned |-> FALSE,
                     pre |-> Snap(Cur)]

ThreadWatches == {<<RISING, None>>, <<BOTH, None>>}

ThreadSetmode == Setmode({BCM})
ThreadSetup == Setup({<<<<7>>, DIR_IN, PUD_OFF, None>>}, {0})
ThreadAddEventDetect ==
  AddEventDetect(WatchChannels, ThreadWatches, {None}, {TRUE})
ThreadOtherAddEventDetect ==
  OtherAddEventDetect(WatchChannels, ThreadWatches, {Some("cb1")})
ThreadRemoveEventDetect == RemoveEventDetect(WatchChannels)
ThreadWaitForEdge ==
  WaitForEdge(WatchChannels, ThreadWatches, WatchTimeouts, {TRUE})
ThreadEventDetectedTest == EventDetectedTest(WatchChannels)
ThreadLineChange == LineChange({7})

ThreadNext ==
  \/ ThreadSetmode
  \/ ThreadSetup
  \/ ThreadAddEventDetect
  \/ ThreadOtherAddEventDetect
  \/ ThreadRemoveEventDetect
  \/ ThreadWaitForEdge
  \/ WaitReturn
  \/ ThreadEventDetectedTest
  \/ DetectedClear
  \/ ThreadLineChange

ThreadSpec == DetectInit /\ [][ThreadNext]_vars

\* the last step was the delivery of an edge of the line to its _Alert
EdgeJustDelivered(g) ==
  /\ last.op = "line_change" /\ last.args = <<g>>
  /\ _alerts[g] # None
  /\ Reports(gp[g], gp[g].level)

\* C36 as stated (it fails): an edge that is delivered after a poll has
\* tested the flag and before the poll returns is not lost: when the poll
\* returns the flag is set, so the next poll returns True.
C36_Original ==
  [][(waiter.pc = "polling" /\ EdgeJustDelivered(waiter.gpio)
        /\ waiter'.pc = "idle")
       => (_alerts'[waiter.gpio] # None
             /\ _alerts'[waiter.gpio][1].detected)]_vars

\* the callbacks of an entry of the registry
RegisteredCallbacks(entry) ==
  IF entry = None THEN {}
  ELSE {entry[1].callbacks[i] : i \in 1..Len(entry[1].callbacks)}

\* C37 as stated (it fails): when a wait_for_edge that made the line's
\* _Alert returns, a callback that add_event_detect of another thread has
\* added to that _Alert during the wait is still registered and the line
\* still has its _Alert.
C37_Original ==
  [][(waiter.pc = "blocked" /\ waiter.unset
        /\ "cb1" \in RegisteredCallbacks(_alerts[waiter.gpio])
        /\ waiter'.pc = "idle")
       => "cb1" \in RegisteredCallbacks(_alerts'[waiter.gpio])]_vars

====
